---- MODULE Spec2Model ----
(***************************************************************************)
(* Model of the financial scenario calculator:                             *)
(*   src/src/types/financial-scenario.ts   (calculateMetrics and helpers)  *)
(*   src/src/hooks/useFinancialScenario.ts (the React hook around it)      *)
(*   src/unnamed/part_003                  (scenario-storage)              *)
(*   src/src/hooks/useScenarioManager.ts   (the list of stored scenarios)  *)
(*   src/unnamed/part_007                  (the preview page)              *)
(*                                                                         *)
(* Numbers.  JavaScript numbers are IEEE-754 binary64 numbers, held as     *)
(* [t, s, hi, lo, e]: for t = "number" the value s * (hi * 2^27 + lo) *    *)
(* 2^e.  Addition, subtraction, multiplication and division round to the   *)
(* nearest number, ties to even, as the processor does.  The other values  *)
(* of t are NaN, Infinity, and `undefined`, `null` and a missing array     *)
(* index where a number is expected.  There is one zero: -0 is written 0.  *)
(*                                                                         *)
(* The specifications share the variables:                                 *)
(*   Spec         calculateMetrics called once on arguments from bounded   *)
(*                sets                                                     *)
(*   SpecHook     useFinancialScenario: mount, the metrics effect, handlers*)
(*   SpecClock    the system clock over a year, for the week computation   *)
(*   SpecScenario createEmptyScenario, migrateScenario and                 *)
(*                updateScenarioMetadata called one after the other        *)
(*   SpecStorage  loadScenarios, saveScenario, deleteScenario on the       *)
(*                values localStorage can hold                             *)
(*   SpecManager  useScenarioManager on a store left by earlier sessions   *)
(*   SpecToggle   runs of toggles of one week in useFinancialScenario      *)
(*   SpecImport   importScenarioFromJSON and exportScenarioAsJSON          *)
(*   SpecPage     the preview page: both hooks, the effect that            *)
(*                synchronises them and the scenario handlers              *)
(***************************************************************************)
EXTENDS Integers, Sequences, FiniteSets, TLC

VARIABLES
    \* calculateMetrics called as a pure function
    argInputs,          \* argument inputs
    argCurrentWeek,     \* argument currentWeek (optional)
    argWeekMultipliers, \* argument weekMultipliers (optional)
    argCostMultipliers, \* argument costMultipliers (optional)
    result,             \* the metrics returned (optional)
    \* useFinancialScenario
    scenario,           \* useState: the FinancialScenario
    weekMultipliers,    \* useState: revenue multipliers
    costMultipliers,    \* useState: cost multipliers
    currentWeek,        \* useMemo: calendar week computed at mount
    effectPending,      \* the metrics effect is scheduled (a dependency changed)
    ops,                \* number of handler calls so far
    \* the system clock
    now,                \* [leapYear, hour]: hours elapsed since 1 January 00:00
    \* the scenario functions called one after the other on a scenario
    fnScenario,         \* the scenario returned by the last call (optional)
    fnPrev,             \* the scenario passed to the last call (optional)
    fnUpdates,          \* the updates passed to updateScenarioMetadata (optional)
    fnOp,               \* the function called last
    fnCalls,            \* number of calls so far
    \* the millisecond clock behind new Date().toISOString()
    nowMs,              \* milliseconds elapsed since the page was opened
    \* scenario-storage: localStorage and the calls of its functions
    storage,            \* the value under STORAGE_KEY: [kind, items]
    lastCall,           \* the last call: [op, arg, ok, before]
    lastSaved,          \* id written by the last successful saveScenario (optional)
    loaded,             \* result of loadScenarios if nothing was stored since (optional)
    storeOps,           \* number of calls so far
    \* useScenarioManager
    mgrScenarios,       \* useState: scenarios
    mgrCurrent,         \* useState: currentScenario (optional, null at first)
    mgrLoading,         \* useState: isLoading
    mgrReturned,        \* scenario returned by the last loadScenarioById (optional)
    \* the preview page
    toggleRun,          \* the run of consecutive toggles of one entry (optional)
    syncDeps            \* dependencies seen by the last run of the sync effect (optional)

calcVars == <<argInputs, argCurrentWeek, argWeekMultipliers, argCostMultipliers, result>>

hookVars == <<scenario, weekMultipliers, costMultipliers, currentWeek, effectPending, ops>>

fnVars == <<fnScenario, fnPrev, fnUpdates, fnOp, fnCalls>>

\* The state outside calculateMetrics, useFinancialScenario and the system clock
storeVars == <<storage, lastCall, lastSaved, loaded, storeOps>>

mgrVars == <<mgrScenarios, mgrCurrent, mgrLoading, mgrReturned>>

pageVars == <<toggleRun, syncDeps>>

libVars == <<fnVars, nowMs, storeVars, mgrVars, pageVars>>

\* The state outside the scenario functions
appVars == <<calcVars, hookVars, now, pageVars>>

vars == <<calcVars, hookVars, now, libVars>>

----------------------------------------------------------------------------
(* Bounds of the model                                                     *)

\* Input fields are overridden by the values 0..MaxVal.
MaxVal == 1

\* Handler calls of the hook in one behaviour
MaxOps == 2

\* Calls of the scenario functions in one behaviour
MaxCalls == 2

\* Milliseconds that pass in one behaviour
MaxTime == 2

\* Calls of the storage functions in one behaviour
MaxStoreOps == 3

\* Handler calls in one behaviour of the toggle handlers
MaxToggleOps == 5

----------------------------------------------------------------------------
(* Optional values: `undefined` is the empty tuple, a present value x is   *)
(* the one-element tuple <<x>>.                                            *)

Undefined == <<>>

Some(x) == <<x>>

IsDefined(o) == o # <<>>

Val(o) == o[1]

----------------------------------------------------------------------------
(* JavaScript numbers: IEEE-754 binary64.  A finite number is              *)
(* s * (hi * 2^27 + lo) * 2^e: the sign s is 1 or -1, the 53-bit           *)
(* significand is held in two digits of base 2^27, and e is the exponent   *)
(* of its last bit, -1074 <= e <= 971.  The significand has its 53rd bit   *)
(* set unless e = -1074 (subnormal numbers).  Every operation rounds its   *)
(* exact result to the nearest such number, ties to the even significand.  *)
(* There is one zero: -0 is written 0.                                     *)

Abs(x) == IF x < 0 THEN -x ELSE x

Min(a, b) == IF a < b THEN a ELSE b

Max(a, b) == IF a > b THEN a ELSE b

Pow2 == [k \in 0..30 |-> 2^k]

\* The base of the two digits of a significand
Base == Pow2[27]

\* The exponent of the last bit of the smallest numbers, whose first bit
\* has the exponent -1022 at least, and of the largest, whose first bit
\* has the exponent 1023
MinExp == -(1022 + 52)

MaxExp == 1023 - 52

Number(s, hi, lo, e) == [t |-> "number", s |-> s, hi |-> hi, lo |-> lo, e |-> e]

Zero == Number(1, 0, 0, 0)

NaN == [t |-> "NaN", s |-> 1, hi |-> 0, lo |-> 0, e |-> 0]

Infinity == [t |-> "Infinity", s |-> 1, hi |-> 0, lo |-> 0, e |-> 0]

NegInfinity == [t |-> "Infinity", s |-> -1, hi |-> 0, lo |-> 0, e |-> 0]

\* `undefined` where a number is expected
UndefNum == [t |-> "undefined", s |-> 1, hi |-> 0, lo |-> 0, e |-> 0]

\* null where a number is expected (JSON.stringify writes NaN and the
\* infinities as null)
JsNull == [t |-> "null", s |-> 1, hi |-> 0, lo |-> 0, e |-> 0]

\* An index that a sparse array lacks: it reads back undefined, reduce() skips
\* it and a spread copies it as undefined
Hole == [t |-> "hole", s |-> 1, hi |-> 0, lo |-> 0, e |-> 0]

IsFinite(a) == a.t = "number"

\* ToNumber: null is 0, undefined is NaN
ToNumber(a) ==
    IF a.t \in {"number", "NaN", "Infinity"} THEN a ELSE IF a = JsNull THEN Zero ELSE NaN

\* -1, 0 or 1
RSign(a) == IF a.hi = 0 /\ a.lo = 0 /\ a.t = "number" THEN 0 ELSE a.s

\* The two-digit natural number hi * 2^27 + lo
Wide(hi, lo) == [hi |-> hi, lo |-> lo]

\* The finite number of the sign, significand and exponent of x, or the
\* infinity when it is beyond the largest number
Finished(x) ==
    IF x.hi = 0 /\ x.lo = 0 THEN Zero
    ELSE IF x.hi >= Pow2[26] THEN (IF x.e + 1 > MaxExp THEN [Infinity EXCEPT !.s = x.s]
                                   ELSE Number(x.s, x.hi \div 2, 0, x.e + 1))
    ELSE IF x.e > MaxExp THEN [Infinity EXCEPT !.s = x.s]
    ELSE Number(x.s, x.hi, x.lo, x.e)

\* The significand of x plus one
Incremented(x) ==
    Finished([x EXCEPT !.hi = IF x.lo + 1 = Base THEN x.hi + 1 ELSE x.hi,
                       !.lo = IF x.lo + 1 = Base THEN 0 ELSE x.lo + 1])

\* Round to nearest, ties to even.  The exact value of x is w * 2^e for
\* w = hi * 2^27 + lo plus, below the last bit of w, the bit round and
\* something more when sticky.  While w has more than 53 bits or e is below
\* MinExp the last bit of w is shifted out into round; a w of fewer than
\* 53 bits, which is exact, is shifted left as far as MinExp allows, by 13
\* bits at once while it has fewer than 40; then
\* w is rounded up when what lies below it is more than one half of its
\* last bit, or is one half and w is odd.  A w that has become 0 below
\* MinExp is less than one half.
RECURSIVE RoundedFrom(_)
RoundedFrom(x) ==
    IF x.hi = 0 /\ x.lo = 0 /\ (x.e < MinExp \/ (~x.round /\ ~x.sticky)) THEN Zero
    ELSE IF x.hi >= Pow2[26] \/ x.e < MinExp
         THEN RoundedFrom([x EXCEPT !.hi = x.hi \div 2,
                                    !.lo = (x.hi % 2) * Pow2[26] + (x.lo \div 2),
                                    !.e = x.e + 1,
                                    !.round = x.lo % 2 = 1,
                                    !.sticky = x.sticky \/ x.round])
    ELSE IF x.hi < Pow2[12] /\ x.e - 13 >= MinExp /\ ~x.round /\ ~x.sticky
         THEN RoundedFrom([x EXCEPT !.hi = Pow2[13] * x.hi + (x.lo \div Pow2[14]),
                                    !.lo = (x.lo % Pow2[14]) * Pow2[13],
                                    !.e = x.e - 13])
    ELSE IF x.hi < Pow2[25] /\ x.e > MinExp /\ ~x.round /\ ~x.sticky
         THEN RoundedFrom([x EXCEPT !.hi = 2 * x.hi + (x.lo \div Pow2[26]),
                                    !.lo = (x.lo % Pow2[26]) * 2,
                                    !.e = x.e - 1])
    ELSE IF x.round /\ (x.sticky \/ x.lo % 2 = 1) THEN Incremented(x)
    ELSE Finished(x)

\* The number nearest to s * (w * 2^e + something below the last bit of w
\* when sticky), for w = hi * 2^27 + lo < 2^57
Rounded(s, hi, lo, e, sticky) ==
    RoundedFrom([s |-> s, hi |-> hi, lo |-> lo, e |-> e, round |-> FALSE, sticky |-> sticky])

\* The integer k: |k| * 2^22 has the 53 bits of a significand or fewer
Num(k) ==
    Rounded(IF k < 0 THEN -1 ELSE 1, Abs(k) \div 32, (Abs(k) % 32) * Pow2[22], -22, FALSE)

One == Num(1)

\* |a| >= |b| for finite a and b
MagnitudeGe(a, b) ==
    \/ b.hi = 0 /\ b.lo = 0
    \/ /\ ~(a.hi = 0 /\ a.lo = 0)
       /\ \/ a.e > b.e
          \/ a.e = b.e /\ (a.hi > b.hi \/ (a.hi = b.hi /\ a.lo >= b.lo))

WideSum(x, y) ==
    IF x.lo + y.lo >= Base THEN Wide(x.hi + y.hi + 1, x.lo + y.lo - Base)
    ELSE Wide(x.hi + y.hi, x.lo + y.lo)

\* x - y for x >= y
WideDifference(x, y) ==
    IF x.lo >= y.lo THEN Wide(x.hi - y.hi, x.lo - y.lo)
    ELSE Wide(x.hi - y.hi - 1, x.lo + Base - y.lo)

\* The significand of a with three more bits below it
Guarded(a) == Wide(a.hi * 8 + (a.lo \div Pow2[24]), (a.lo % Pow2[24]) * 8)

\* The significand of those digits, its last bit set when lost
Jammed(hi, lo, lost) == Wide(hi, IF lost /\ lo % 2 = 0 THEN lo + 1 ELSE lo)

\* w shifted right by j bits, 1 <= j <= 26, its last bit being set when a
\* bit that is set is lost
ShiftedRight(w, j) ==
    Jammed(w.hi \div Pow2[j], (w.hi % Pow2[j]) * Pow2[27 - j] + (w.lo \div Pow2[j]),
           w.lo % Pow2[j] # 0)

\* w shifted right by k bits, at most 26 at a time; once w is 0 or 1 it
\* stays so
RECURSIVE Aligned(_, _)
Aligned(w, k) ==
    IF k = 0 \/ (w.hi = 0 /\ w.lo <= 1) THEN w
    ELSE Aligned(ShiftedRight(w, Min(k, 26)), k - Min(k, 26))

\* The number nearest to s * w * 2^e; a w of 56 bits or more, which the sum
\* of two significands with their three bits below has, gives its last
\* three bits up at once
SumRounded(s, w, e) ==
    RoundedFrom(IF w.hi >= Pow2[28]
                THEN [s |-> s, hi |-> w.hi \div 8, lo |-> (w.hi % 8) * Pow2[24] + (w.lo \div 8),
                      e |-> e + 3, round |-> (w.lo \div 4) % 2 = 1, sticky |-> w.lo % 4 # 0]
                ELSE [s |-> s, hi |-> w.hi, lo |-> w.lo, e |-> e,
                      round |-> FALSE, sticky |-> FALSE])

\* a + b from the significands x of a and y of b, made to the exponent of a
SumAligned(a, b, x, y) ==
    SumRounded(a.s, IF a.s = b.s THEN WideSum(x, y) ELSE WideDifference(x, y), a.e - 3)

\* a + b for finite a and b with |a| >= |b|
OrderedSum(a, b) ==
    IF b.hi = 0 /\ b.lo = 0 THEN a
    ELSE SumAligned(a, b, Guarded(a), Aligned(Guarded(b), a.e - b.e))

\* x + y where an operand was not a finite number; x and y are numbers
NonFiniteSum(x, y) ==
    IF x = NaN \/ y = NaN THEN NaN
    ELSE IF IsFinite(x) /\ IsFinite(y) THEN (IF RSign(x) = 0 THEN y ELSE x)
    ELSE IF IsFinite(x) THEN y
    ELSE IF IsFinite(y) \/ x = y THEN x
    ELSE NaN

\* a + b
RAdd(a, b) ==
    IF ~(IsFinite(a) /\ IsFinite(b)) THEN NonFiniteSum(ToNumber(a), ToNumber(b))
    ELSE OrderedSum(IF MagnitudeGe(a, b) THEN a ELSE b, IF MagnitudeGe(a, b) THEN b ELSE a)

\* -a
RNeg(a) ==
    IF a.t = "number" THEN (IF a.hi = 0 /\ a.lo = 0 THEN a ELSE [a EXCEPT !.s = -a.s])
    ELSE IF a.t = "Infinity" THEN [a EXCEPT !.s = -a.s]
    ELSE ToNumber(a)

\* a - b
RSub(a, b) == RAdd(a, RNeg(b))

\* x * y for x, y < 2^27, from the products of their halves of 13 and 14
\* bits: high * 2^28 + cross * 2^14 + low
DigitProductOf(high, cross, low) ==
    Wide(2 * high + (cross \div 8192) + (((cross % 8192) * 16384 + low) \div Base),
         ((cross % 8192) * 16384 + low) % Base)

DigitProduct(x, y) ==
    DigitProductOf((x \div 16384) * (y \div 16384),
                   (x \div 16384) * (y % 16384) + (x % 16384) * (y \div 16384),
                   (x % 16384) * (y % 16384))

\* The product p3 * 2^81 + p2 * 2^54 + p1 * 2^27 + p0 of two significands
\* of 53 bits, which has 105 or 106 bits, as the number nearest to it: its
\* first 54 or 55 bits, the 51 others being sticky
ProductRounded(s, p3, p2, p1, p0, e) ==
    Rounded(s, p3 * 8 + (p2 \div Pow2[24]), (p2 % Pow2[24]) * 8 + (p1 \div Pow2[24]), e + 51,
            p1 % Pow2[24] # 0 \/ p0 # 0)

\* The digits of ll + (lh + hl) * 2^27 + hh * 2^54, t1 and t2 being the
\* sums of the second and of the third digit before their carries
ProductCarried(s, ll, hh, t1, t2, e) ==
    ProductRounded(s, hh.hi + (t2 \div Base), t2 % Base, t1 % Base, ll.lo, e)

ProductSummed(s, ll, lh, hl, hh, t1, e) ==
    ProductCarried(s, ll, hh, t1, (t1 \div Base) + lh.hi + hl.hi + hh.lo, e)

ProductOfDigits(s, ll, lh, hl, hh, e) ==
    ProductSummed(s, ll, lh, hl, hh, ll.hi + lh.lo + hl.lo, e)

\* a with its significand shifted left to 53 bits (a is a subnormal number
\* other than 0; the exponent then lies below MinExp)
RECURSIVE Normal(_)
Normal(a) ==
    IF a.hi >= Pow2[25] THEN a
    ELSE Normal(Number(a.s, 2 * a.hi + (a.lo \div Pow2[26]), (a.lo % Pow2[26]) * 2, a.e - 1))

\* a * b for finite a and b other than 0, with significands of 53 bits
NormalProduct(a, b) ==
    ProductOfDigits(a.s * b.s, DigitProduct(a.lo, b.lo), DigitProduct(a.lo, b.hi),
                    DigitProduct(a.hi, b.lo), DigitProduct(a.hi, b.hi), a.e + b.e)

\* a * b where an operand is not a finite number: 0 when null meets a
\* finite number, NaN when an operand is NaN or undefined and for
\* 0 * Infinity, an infinity otherwise
NonFiniteProduct(a, b) ==
    IF (IsFinite(a) \/ a = JsNull) /\ (IsFinite(b) \/ b = JsNull) THEN Zero
    ELSE IF a.t \in {"NaN", "undefined", "hole"} \/ b.t \in {"NaN", "undefined", "hole"}
            \/ RSign(ToNumber(a)) * RSign(ToNumber(b)) = 0 THEN NaN
    ELSE IF RSign(a) = RSign(b) THEN Infinity
    ELSE NegInfinity

\* a * b
RMul(a, b) ==
    IF ~(IsFinite(a) /\ IsFinite(b)) THEN NonFiniteProduct(a, b)
    ELSE IF a = Zero \/ b = Zero THEN Zero
    ELSE IF b = One THEN a
    ELSE IF a = One THEN b
    ELSE NormalProduct(Normal(a), Normal(b))

\* x < y for numbers x and y
NumberLess(x, y) ==
    IF IsFinite(x) /\ IsFinite(y)
    THEN (IF RSign(x) # RSign(y) THEN RSign(x) < RSign(y)
          ELSE IF RSign(x) > 0 THEN ~MagnitudeGe(x, y)
          ELSE IF RSign(x) < 0 THEN ~MagnitudeGe(y, x)
          ELSE FALSE)
    ELSE x # NaN /\ y # NaN /\ x # Infinity /\ y # NegInfinity /\ x # y

\* a < b, a > b (false whenever an operand is NaN or undefined)
RLt(a, b) == NumberLess(ToNumber(a), ToNumber(b))

RGt(a, b) == RLt(b, a)

\* Long division of significands, bit by bit: in x, r = rh * 2^27 + rl is
\* the remainder, below the divisor d = dh * 2^27 + dl doubled, q the
\* quotient so far, k the number of bits to come and c the number of bits
\* to come in this run of eight.  When r is d or more the next bit is 1
\* and d is taken from r, with a borrow when rl is below dl; what is left
\* is doubled.
QuotientBit(x) ==
    IF x.rh > x.dh \/ (x.rh = x.dh /\ x.rl >= x.dl)
    THEN [x EXCEPT !.rh = 2 * (x.rh - x.dh - (IF x.rl < x.dl THEN 1 ELSE 0))
                          + ((x.rl - x.dl + (IF x.rl < x.dl THEN Base ELSE 0)) \div Pow2[26]),
                   !.rl = ((x.rl - x.dl + (IF x.rl < x.dl THEN Base ELSE 0)) % Pow2[26]) * 2,
                   !.qh = 2 * x.qh + (x.ql \div Pow2[26]),
                   !.ql = (x.ql % Pow2[26]) * 2 + 1,
                   !.k = x.k - 1, !.c = x.c - 1]
    ELSE [x EXCEPT !.rh = 2 * x.rh + (x.rl \div Pow2[26]),
                   !.rl = (x.rl % Pow2[26]) * 2,
                   !.qh = 2 * x.qh + (x.ql \div Pow2[26]),
                   !.ql = (x.ql % Pow2[26]) * 2,
                   !.k = x.k - 1, !.c = x.c - 1]

RECURSIVE QuotientChunk(_)
QuotientChunk(x) == IF x.c = 0 \/ x.k = 0 THEN x ELSE QuotientChunk(QuotientBit(x))

RECURSIVE QuotientBits(_)
QuotientBits(x) ==
    IF x.k = 0 THEN x ELSE QuotientBits(QuotientChunk([x EXCEPT !.c = 8]))

QuotientRounded(s, x, e) == Rounded(s, x.qh, x.ql, e, x.rh # 0 \/ x.rl # 0)

\* a / b for finite a and b other than 0, with significands of 53 bits:
\* floor(a * 2^54 / b) has 54 or 55 bits
NormalQuotient(a, b) ==
    QuotientRounded(a.s * b.s,
                    QuotientBits([rh |-> a.hi, rl |-> a.lo, dh |-> b.hi, dl |-> b.lo,
                                  qh |-> 0, ql |-> 0, k |-> 55, c |-> 0]),
                    a.e - b.e - 54)

\* x / y for numbers x and y; x/0 is +-Infinity and 0/0 is NaN as in
\* JavaScript
NumberQuotient(x, y) ==
    IF x = NaN \/ y = NaN THEN NaN
    ELSE IF ~IsFinite(x) THEN (IF ~IsFinite(y) THEN NaN
                               ELSE IF RSign(y) < 0 THEN RNeg(x) ELSE x)
    ELSE IF ~IsFinite(y) THEN Zero
    ELSE IF RSign(y) = 0
         THEN (IF RSign(x) = 0 THEN NaN ELSE IF RSign(x) > 0 THEN Infinity ELSE NegInfinity)
    ELSE IF RSign(x) = 0 THEN Zero
    ELSE NormalQuotient(Normal(x), Normal(y))

\* a / b
RDiv(a, b) == NumberQuotient(ToNumber(a), ToNumber(b))

\* The number nearest to p / q: what the decimal literal of p / q denotes
R(p, q) == RDiv(Num(p), Num(q))

\* The number literals of the code that appear in more than one place
Half == R(1, 2)

SixFifths == R(6, 5)

Two == Num(2)

Twelve == Num(12)

Hundred == Num(100)

----------------------------------------------------------------------------
(* JavaScript arrays: sequences (index i of the array is element i+1)      *)

\* Array.prototype.slice(start, end): negative indices count from the end
JsSlice(arr, start, end) ==
    LET len  == Len(arr)
        from == IF start < 0 THEN Max(len + start, 0) ELSE Min(start, len)
        to   == IF end < 0 THEN Max(len + end, 0) ELSE Min(end, len)
    IN  IF to <= from THEN <<>> ELSE SubSeq(arr, from + 1, to)

\* arr.slice(start): up to the end of the array
JsSliceFrom(arr, start) == JsSlice(arr, start, Len(arr))

\* Array(n).fill(v)
Fill(n, v) == [i \in 1..n |-> v]

\* The fold over the elements i..last, left to right; a sum that has become
\* NaN stays NaN, and an index the array lacks is skipped.
RECURSIVE ReduceChunk(_, _, _, _, _)
ReduceChunk(arr, base, i, last, sum) ==
    IF i > last \/ sum = NaN THEN sum
    ELSE ReduceChunk(arr, base, i + 1, last,
                     IF arr[i] = Hole THEN sum ELSE RAdd(sum, RMul(base, arr[i])))

\* The fold from index i on, left to right, taken eight elements at a time
RECURSIVE ReduceFrom(_, _, _, _)
ReduceFrom(arr, base, i, sum) ==
    IF i > Len(arr) \/ sum = NaN THEN sum
    ELSE ReduceFrom(arr, base, i + 8, ReduceChunk(arr, base, i, Min(i + 7, Len(arr)), sum))

\* arr.reduce((sum, multiplier) => sum + base * multiplier, 0)
SumWeighted(arr, base) == ReduceFrom(arr, base, 1, Zero)

----------------------------------------------------------------------------
(* financial-scenario.ts                                                   *)

NumWeeks == 52

WeeksPerMonth == R(433, 100)

VAT_RATE == R(19, 100)

\* 1 + VAT_RATE
OnePlusVatRate == RAdd(One, VAT_RATE)

\* The 52 of `* 52` (lines 424-427), as a number
WeeksPerYear == Num(NumWeeks)

InputFields ==
    { "profitraining", "ticketPrice", "ticketsPerWeek", "gastronomyProfitPerTicket",
      "showsPerWeek", "gemaFeePerShow", "kvrFeePerShow", "artistFeePerShow",
      "course1PricePerParticipant", "course1Participants", "course1PerWeek", "course1TrainerCosts",
      "course2PricePerParticipant", "course2Participants", "course2PerWeek", "course2TrainerCosts",
      "course3PricePerParticipant", "course3Participants", "course3PerWeek", "course3TrainerCosts",
      "workshopProfitPerParticipant", "workshopParticipants", "workshopsPerMonth",
      "rentalsPerWeek", "rentalPrice",
      "rent", "salaries", "marketing", "technology", "heatingCosts", "otherCosts",
      "weeklyReserves" }

DEFAULT_FINANCIAL_INPUTS ==
    [ profitraining |-> Num(700),
      ticketPrice |-> Num(15), ticketsPerWeek |-> Num(60), gastronomyProfitPerTicket |-> Num(3),
      showsPerWeek |-> One, gemaFeePerShow |-> Num(50), kvrFeePerShow |-> Num(50),
      artistFeePerShow |-> Num(600),
      course1PricePerParticipant |-> Num(20), course1Participants |-> Twelve,
      course1PerWeek |-> Two, course1TrainerCosts |-> Num(50),
      course2PricePerParticipant |-> Num(18), course2Participants |-> Num(8),
      course2PerWeek |-> Num(3), course2TrainerCosts |-> Num(40),
      course3PricePerParticipant |-> Num(25), course3Participants |-> Num(6),
      course3PerWeek |-> One, course3TrainerCosts |-> Num(60),
      workshopProfitPerParticipant |-> Num(20), workshopParticipants |-> Num(15),
      workshopsPerMonth |-> Two,
      rentalsPerWeek |-> Num(3), rentalPrice |-> Num(250),
      rent |-> Zero, salaries |-> R(1225705, 100), marketing |-> Num(300),
      technology |-> Num(200), heatingCosts |-> Num(3500), otherCosts |-> Num(300),
      weeklyReserves |-> Zero ]

\* emptyInputs of createEmptyScenario: every field 0
emptyInputs == [f \in InputFields |-> Zero]

\* Lines 359-367: VAT is taken out of the weekly gross revenue except the
\* gastronomy revenue, which is net already.
WeeklyVatSplit(baseWeeklyRevenueBrutto, gastronomyRevenuePerWeek) ==
    LET split(baseWeeklyRevenueBruttoForVAT, baseWeeklyRevenueNetFromBrutto) ==
            [ baseWeeklyRevenue |-> RAdd(baseWeeklyRevenueNetFromBrutto, gastronomyRevenuePerWeek),
              weeklyVAT |-> RSub(baseWeeklyRevenueBruttoForVAT, baseWeeklyRevenueNetFromBrutto) ]
        net(baseWeeklyRevenueBruttoForVAT) ==
            split(baseWeeklyRevenueBruttoForVAT,
                  RDiv(baseWeeklyRevenueBruttoForVAT, OnePlusVatRate))
    IN  net(RSub(baseWeeklyRevenueBrutto, gastronomyRevenuePerWeek))

\* inputs.<field> for every field the function reads: a field the object
\* lacks (a scenario stored by an earlier version) reads as undefined
ReadInputs(inputs) ==
    [f \in InputFields \cup DOMAIN inputs |->
        IF f \in DOMAIN inputs THEN inputs[f] ELSE UndefNum]

\* Lines 316-349: the weekly gross revenue of each source
WeeklySources(inputs) ==
    [ fixedIncomePerWeek |-> RDiv(inputs.profitraining, WeeksPerMonth),
      ticketRevenuePerWeek |-> RMul(inputs.ticketPrice, inputs.ticketsPerWeek),
      gastronomyRevenuePerWeek |-> RMul(inputs.gastronomyProfitPerTicket, inputs.ticketsPerWeek),
      course1RevenuePerWeek |->
          RMul(RSub(RMul(inputs.course1PricePerParticipant, inputs.course1Participants),
                    inputs.course1TrainerCosts), inputs.course1PerWeek),
      course2RevenuePerWeek |->
          RMul(RSub(RMul(inputs.course2PricePerParticipant, inputs.course2Participants),
                    inputs.course2TrainerCosts), inputs.course2PerWeek),
      course3RevenuePerWeek |->
          RMul(RSub(RMul(inputs.course3PricePerParticipant, inputs.course3Participants),
                    inputs.course3TrainerCosts), inputs.course3PerWeek),
      workshopRevenuePerWeek |->
          RDiv(RMul(RMul(inputs.workshopProfitPerParticipant, inputs.workshopParticipants),
                    inputs.workshopsPerMonth), WeeksPerMonth),
      rentalRevenuePerWeek |-> RMul(inputs.rentalsPerWeek, inputs.rentalPrice) ]

\* Lines 373-385: the weekly cost components
WeeklyCostParts(inputs) ==
    [ monthlyCostsPerWeek |->
          RDiv(RAdd(RAdd(RAdd(RAdd(RAdd(inputs.rent, inputs.salaries), inputs.marketing),
               inputs.technology), inputs.heatingCosts), inputs.otherCosts), WeeksPerMonth),
      showFeesPerWeek |->
          RMul(RAdd(RAdd(inputs.gemaFeePerShow, inputs.kvrFeePerShow), inputs.artistFeePerShow),
               inputs.showsPerWeek),
      weeklyReserves |-> inputs.weeklyReserves ]

\* Lines 316-389: the weekly gross revenue by source, the VAT split and the
\* weekly costs.
WeeklyBase(inputs) ==
    LET record(s, c, baseWeeklyRevenueBrutto, split) ==
            [ fixedIncomePerWeek |-> s.fixedIncomePerWeek,
              ticketRevenuePerWeek |-> s.ticketRevenuePerWeek,
              gastronomyRevenuePerWeek |-> s.gastronomyRevenuePerWeek,
              course1RevenuePerWeek |-> s.course1RevenuePerWeek,
              course2RevenuePerWeek |-> s.course2RevenuePerWeek,
              course3RevenuePerWeek |-> s.course3RevenuePerWeek,
              workshopRevenuePerWeek |-> s.workshopRevenuePerWeek,
              rentalRevenuePerWeek |-> s.rentalRevenuePerWeek,
              baseWeeklyRevenueBrutto |-> baseWeeklyRevenueBrutto,
              baseWeeklyRevenue |-> split.baseWeeklyRevenue,
              weeklyVAT |-> split.weeklyVAT,
              monthlyCostsPerWeek |-> c.monthlyCostsPerWeek,
              showFeesPerWeek |-> c.showFeesPerWeek,
              weeklyReserves |-> c.weeklyReserves,
              baseWeeklyCosts |->
                  RAdd(RAdd(c.monthlyCostsPerWeek, c.weeklyReserves), c.showFeesPerWeek) ]
        fromBrutto(s, c, baseWeeklyRevenueBrutto) ==
            record(s, c, baseWeeklyRevenueBrutto,
                   WeeklyVatSplit(baseWeeklyRevenueBrutto, s.gastronomyRevenuePerWeek))
        fromSources(s, c) ==
            fromBrutto(s, c,
                RAdd(RAdd(RAdd(RAdd(RAdd(RAdd(RAdd(s.fixedIncomePerWeek, s.ticketRevenuePerWeek),
                     s.gastronomyRevenuePerWeek), s.course1RevenuePerWeek),
                     s.course2RevenuePerWeek), s.course3RevenuePerWeek),
                     s.workshopRevenuePerWeek), s.rentalRevenuePerWeek))
    IN  fromSources(WeeklySources(inputs), WeeklyCostParts(inputs))

\* The length test that accepts longer arrays too
HasAllWeeks_atLeast(a) == IsDefined(a) /\ Len(Val(a)) >= NumWeeks

\* `a && a.length === 52` for an optional array a
HasAllWeeks(a) == IsDefined(a) /\ Len(Val(a)) = NumWeeks

\* The cost multipliers that ignore a separate costMultipliers array
effectiveCostMultipliers_revenueOnly(weekMults, costMults) == weekMults

\* Lines 401-403: costMultipliers if it has 52 entries, else weekMultipliers
effectiveCostMultipliers(weekMults, costMults) ==
    IF HasAllWeeks(costMults) THEN costMults ELSE weekMults

\* Lines 395-428: the annual totals
AnnualTotals(w, weekMults, costMults) ==
    LET totals(totalRevenueBrutto, totalRevenue, totalCosts) ==
            [ totalRevenueBrutto |-> totalRevenueBrutto, totalRevenue |-> totalRevenue,
              totalVAT |-> RSub(totalRevenueBrutto, totalRevenue), totalCosts |-> totalCosts ]
        net(totalRevenueBrutto, totalCosts) ==
            totals(totalRevenueBrutto, RDiv(totalRevenueBrutto, OnePlusVatRate), totalCosts)
    IN  IF HasAllWeeks(weekMults)
        THEN net(SumWeighted(Val(weekMults), w.baseWeeklyRevenueBrutto),
                 SumWeighted(Val(IF HasAllWeeks(effectiveCostMultipliers(weekMults, costMults))
                                 THEN effectiveCostMultipliers(weekMults, costMults)
                                 ELSE weekMults),
                             w.baseWeeklyCosts))
        ELSE net(RMul(w.baseWeeklyRevenueBrutto, WeeksPerYear), RMul(w.baseWeeklyCosts, WeeksPerYear))

\* The margin without its guard on the net revenue
ProfitMargin_unguarded(totalProfit, totalRevenue) ==
    RMul(RDiv(totalProfit, totalRevenue), Hundred)

\* Line 432: the margin in percent, 0 unless the net revenue is positive
ProfitMargin(totalProfit, totalRevenue) ==
    IF RGt(totalRevenue, Zero)
    THEN RMul(RDiv(totalProfit, totalRevenue), Hundred)
    ELSE Zero

\* The split that counts the current week as historical: the slices are cut
\* at currentWeek instead of currentWeek - 1.
HistoricalSplit_throughCurrentWeek(w, t, week, weekMults, costMults) ==
    IF IsDefined(week) /\ HasAllWeeks(weekMults)
    THEN LET eff == effectiveCostMultipliers(weekMults, costMults)
             cw == Val(week)
             costs == IF HasAllWeeks(eff) THEN Val(eff) ELSE Val(weekMults)
         IN  [ historicalRevenue |-> SumWeighted(JsSlice(Val(weekMults), 0, cw), w.baseWeeklyRevenue),
               projectedRevenue |-> SumWeighted(JsSliceFrom(Val(weekMults), cw), w.baseWeeklyRevenue),
               historicalCosts |-> SumWeighted(JsSlice(costs, 0, cw), w.baseWeeklyCosts),
               projectedCosts |-> SumWeighted(JsSliceFrom(costs, cw), w.baseWeeklyCosts) ]
    ELSE [ historicalRevenue |-> Zero, projectedRevenue |-> t.totalRevenue,
           historicalCosts |-> Zero, projectedCosts |-> t.totalCosts ]

\* The split without the length test on weekMultipliers
HistoricalSplit_anyLength(w, t, week, weekMults, costMults) ==
    IF IsDefined(week) /\ IsDefined(weekMults)
    THEN LET eff == effectiveCostMultipliers(weekMults, costMults)
             cw == Val(week)
             costs == IF HasAllWeeks(eff) THEN Val(eff) ELSE Val(weekMults)
         IN  [ historicalRevenue |->
                   SumWeighted(JsSlice(Val(weekMults), 0, cw - 1), w.baseWeeklyRevenue),
               projectedRevenue |->
                   SumWeighted(JsSliceFrom(Val(weekMults), cw - 1), w.baseWeeklyRevenue),
               historicalCosts |-> SumWeighted(JsSlice(costs, 0, cw - 1), w.baseWeeklyCosts),
               projectedCosts |-> SumWeighted(JsSliceFrom(costs, cw - 1), w.baseWeeklyCosts) ]
    ELSE [ historicalRevenue |-> Zero, projectedRevenue |-> t.totalRevenue,
           historicalCosts |-> Zero, projectedCosts |-> t.totalCosts ]

\* Lines 442-474: historical and projected revenue and costs
HistoricalSplit(w, t, week, weekMults, costMults) ==
    IF IsDefined(week) /\ HasAllWeeks(weekMults)
    THEN LET eff == effectiveCostMultipliers(weekMults, costMults)
             cw == Val(week)
             historicalWeeks == JsSlice(Val(weekMults), 0, cw - 1)
             projectedWeeks == JsSliceFrom(Val(weekMults), cw - 1)
             historicalCostMultipliers ==
                 IF HasAllWeeks(eff) THEN JsSlice(Val(eff), 0, cw - 1) ELSE historicalWeeks
             projectedCostMultipliers ==
                 IF HasAllWeeks(eff) THEN JsSliceFrom(Val(eff), cw - 1) ELSE projectedWeeks
         IN  [ historicalRevenue |-> SumWeighted(historicalWeeks, w.baseWeeklyRevenue),
               projectedRevenue |-> SumWeighted(projectedWeeks, w.baseWeeklyRevenue),
               historicalCosts |-> SumWeighted(historicalCostMultipliers, w.baseWeeklyCosts),
               projectedCosts |-> SumWeighted(projectedCostMultipliers, w.baseWeeklyCosts) ]
    ELSE [ historicalRevenue |-> Zero, projectedRevenue |-> t.totalRevenue,
           historicalCosts |-> Zero, projectedCosts |-> t.totalCosts ]

\* calculateMetrics(inputs, currentWeek?, weekMultipliers?, costMultipliers?)
calculateMetrics(inputs, week, weekMults, costMults) ==
    LET record(w, t, totalProfit, profitMargin, h) ==
            [ baseWeeklyRevenue |-> w.baseWeeklyRevenue,
              baseWeeklyRevenueBrutto |-> w.baseWeeklyRevenueBrutto,
              baseWeeklyCosts |-> w.baseWeeklyCosts,
              totalRevenue |-> t.totalRevenue,
              totalRevenueBrutto |-> t.totalRevenueBrutto,
              totalCosts |-> t.totalCosts,
              totalProfit |-> totalProfit,
              totalProfitBrutto |-> RSub(t.totalRevenueBrutto, t.totalCosts),
              profitMargin |-> profitMargin,
              historicalRevenue |-> h.historicalRevenue,
              historicalCosts |-> h.historicalCosts,
              projectedRevenue |-> h.projectedRevenue,
              projectedCosts |-> h.projectedCosts,
              projectedProfit |-> RSub(h.projectedRevenue, h.projectedCosts),
              fixedIncomePerWeek |-> w.fixedIncomePerWeek,
              ticketRevenuePerWeek |-> w.ticketRevenuePerWeek,
              gastronomyRevenuePerWeek |-> w.gastronomyRevenuePerWeek,
              course1RevenuePerWeek |-> w.course1RevenuePerWeek,
              course2RevenuePerWeek |-> w.course2RevenuePerWeek,
              course3RevenuePerWeek |-> w.course3RevenuePerWeek,
              workshopRevenuePerWeek |-> w.workshopRevenuePerWeek,
              rentalRevenuePerWeek |-> w.rentalRevenuePerWeek,
              monthlyCostsPerWeek |-> w.monthlyCostsPerWeek,
              showFeesPerWeek |-> w.showFeesPerWeek,
              weeklyReserves |-> w.weeklyReserves,
              totalVAT |-> t.totalVAT,
              weeklyVAT |-> w.weeklyVAT,
              netRevenue |-> t.totalRevenue,
              netProfit |-> totalProfit,
              netProfitMargin |-> profitMargin ]
        fromProfit(w, t, totalProfit) ==
            record(w, t, totalProfit, ProfitMargin(totalProfit, t.totalRevenue),
                    HistoricalSplit(w, t, week, weekMults, costMults))
        fromTotals(w, t) == fromProfit(w, t, RSub(t.totalRevenue, t.totalCosts))
        fromWeekly(w) == fromTotals(w, AnnualTotals(w, weekMults, costMults))
    IN  fromWeekly(WeeklyBase(ReadInputs(inputs)))

----------------------------------------------------------------------------
(* Specification of calculateMetrics as a pure function: the arguments are *)
(* drawn from bounded sets and one action applies the function.            *)

\* A record whose course 1 costs more than it earns (negative revenue)
lossInputs == [emptyInputs EXCEPT !.course1TrainerCosts = One, !.course1PerWeek = One]

\* The fields varied one at a time around the defaults: at least one of
\* every revenue source and of every cost component
VariedFields ==
    { "profitraining", "ticketPrice", "ticketsPerWeek", "gastronomyProfitPerTicket",
      "showsPerWeek", "artistFeePerShow",
      "course1Participants", "course1PerWeek", "course1TrainerCosts",
      "workshopsPerMonth", "rentalsPerWeek",
      "rent", "salaries", "weeklyReserves" }

\* One ticket a week at 10 cents and nothing else
centInputs == [emptyInputs EXCEPT !.ticketPrice = R(1, 10), !.ticketsPerWeek = One]

InputChoices ==
    {DEFAULT_FINANCIAL_INPUTS, emptyInputs, lossInputs, centInputs} \cup
    { [DEFAULT_FINANCIAL_INPUTS EXCEPT ![f] = Num(v)] : f \in VariedFields, v \in 0..MaxVal }

CurrentWeekChoices == {Undefined} \cup { Some(k) : k \in {-60, 0, 1, 27, 52, 53} }

\* Array(52).fill(1.0)
AllOnes == Fill(NumWeeks, One)

\* 10 weeks at 0, then 42 weeks at 1.0
TenWeeksOff == [k \in 1..NumWeeks |-> IF k <= 10 THEN Zero ELSE One]

\* A season of toggled and manual values: 1.2, 0.5, 0, 1.0, 0.7, ...
Seasonal ==
    [k \in 1..NumWeeks |->
        CASE k % 5 = 1 -> SixFifths
          [] k % 5 = 2 -> Half
          [] k % 5 = 3 -> Zero
          [] k % 5 = 4 -> One
          [] OTHER     -> R(7, 10)]

WeekMultiplierChoices ==
    { Undefined, Some(<<>>), Some(Fill(NumWeeks - 1, Half)), Some(Fill(NumWeeks + 1, Half)),
      Some(TenWeeksOff), Some(Seasonal) }

CostMultiplierChoices ==
    { Undefined, Some(Fill(NumWeeks - 1, Half)), Some(Seasonal) }

\* The hook is not mounted
HookIdle ==
    /\ scenario = Undefined
    /\ weekMultipliers = Undefined
    /\ costMultipliers = Undefined
    /\ currentWeek = Undefined
    /\ effectPending = FALSE
    /\ ops = 0

\* No call of calculateMetrics is being observed
CalcIdle ==
    /\ argInputs = emptyInputs
    /\ argCurrentWeek = Undefined
    /\ argWeekMultipliers = Undefined
    /\ argCostMultipliers = Undefined
    /\ result = Undefined

\* The clock stands at 1 January 00:00 of a common year
ClockIdle == now = [leapYear |-> FALSE, hour |-> 0]

\* No scenario function is being observed
FnIdle ==
    /\ fnScenario = Undefined
    /\ fnPrev = Undefined
    /\ fnUpdates = Undefined
    /\ fnOp = "none"
    /\ fnCalls = 0

\* localStorage has no entry under the key and no storage function was called
StoreIdle ==
    /\ storage = [kind |-> "missing", items |-> <<>>]
    /\ lastCall = [op |-> "none"]
    /\ lastSaved = Undefined
    /\ loaded = Undefined
    /\ storeOps = 0

\* useScenarioManager is not mounted
MgrIdle ==
    /\ mgrScenarios = <<>>
    /\ mgrCurrent = Undefined
    /\ mgrLoading = TRUE
    /\ mgrReturned = Undefined

\* No run of toggles is observed and the preview page is not mounted
PageIdle ==
    /\ toggleRun = Undefined
    /\ syncDeps = Undefined

\* Nothing outside calculateMetrics, the hook and the system clock is observed
LibIdle == FnIdle /\ nowMs = 0 /\ StoreIdle /\ MgrIdle /\ PageIdle

Init ==
    /\ argInputs \in InputChoices
    /\ argCurrentWeek \in CurrentWeekChoices
    /\ argWeekMultipliers \in WeekMultiplierChoices
    /\ argCostMultipliers \in CostMultiplierChoices
    /\ result = Undefined
    /\ HookIdle
    /\ ClockIdle
    /\ LibIdle

\* The objects that calculateMetrics is given by reference, as the caller
\* holds them: passed is [inputs, weekMultipliers, costMultipliers].  The
\* function has no assignment to a property of inputs or to an element of
\* an array; what it calls on the arrays is reduce (lines 407, 418, 420) and
\* slice (lines 448, 449, 466, 469), and its other reduces work on the
\* arrays that slice returned.

\* arr.splice(start, end - start) in the place of arr.slice(start, end): it
\* returns the same elements and takes them out of arr
Sliced_bySplice(passed, ref, start, end) ==
    [passed EXCEPT ![ref] = Some(JsSlice(Val(@), 0, start) \o JsSliceFrom(Val(@), end))]

\* passed[ref].slice(start, end): the elements are copied into a new array
\* and the array itself is left as it is
Sliced(passed, ref, start, end) == passed

\* passed[ref].reduce((sum, multiplier) => sum + base * multiplier, 0):
\* reduce and the callback only read the array
Reduced(passed, ref) == passed

\* Lines 401-403: the array that effectiveCostMultipliers refers to
EffectiveRef(passed) ==
    IF HasAllWeeks(passed.costMultipliers) THEN "costMultipliers" ELSE "weekMultipliers"

\* Lines 417-421
AfterTotalCosts(passed, eff) ==
    IF HasAllWeeks(passed[eff]) THEN Reduced(passed, eff) ELSE Reduced(passed, "weekMultipliers")

\* Lines 405-428
AfterTotals(passed, eff) ==
    IF HasAllWeeks(passed.weekMultipliers)
    THEN AfterTotalCosts(Reduced(passed, "weekMultipliers"), eff)
    ELSE passed

\* Lines 465-470
AfterCostSlices(passed, eff, cw) ==
    IF HasAllWeeks(passed[eff])
    THEN Sliced(Sliced(passed, eff, 0, cw - 1), eff, cw - 1, NumWeeks)
    ELSE passed

\* Lines 447-474
AfterSplit(passed, eff, week) ==
    IF IsDefined(week) /\ HasAllWeeks(passed.weekMultipliers)
    THEN AfterCostSlices(Sliced(Sliced(passed, "weekMultipliers", 0, Val(week) - 1),
                                "weekMultipliers", Val(week) - 1, NumWeeks),
                         eff, Val(week))
    ELSE passed

\* The objects passed, as the call leaves them
PassedAfter(passed, week) ==
    AfterSplit(AfterTotals(passed, EffectiveRef(passed)), EffectiveRef(passed), week)

\* metrics = calculateMetrics(inputs, currentWeek, weekMultipliers, costMultipliers)
Call ==
    /\ result = Undefined
    /\ result' = Some(calculateMetrics(argInputs, argCurrentWeek, argWeekMultipliers,
                                        argCostMultipliers))
    /\ \E after \in {PassedAfter([inputs |-> argInputs,
                                    weekMultipliers |-> argWeekMultipliers,
                                    costMultipliers |-> argCostMultipliers], argCurrentWeek)} :
           /\ argInputs' = after.inputs
           /\ argWeekMultipliers' = after.weekMultipliers
           /\ argCostMultipliers' = after.costMultipliers
    /\ UNCHANGED argCurrentWeek
    /\ UNCHANGED <<hookVars, now, libVars>>

Next == Call

Spec == Init /\ [][Next]_vars

----------------------------------------------------------------------------
(* Claims about calculateMetrics (specification Spec)                      *)

Called == IsDefined(result)

metrics == Val(result)

\* The weekly figures of the call's inputs
weekly == WeeklyBase(argInputs)

\* Amounts by which C8 raises gastronomyProfitPerTicket: 0.5, 1, 1.5, ...
MaxDelta == 2

DeltaChoices == { R(k, 2) : k \in 1..MaxDelta }

\* C1 (as claimed): with a 52-entry weekMultipliers and currentWeek in 1..52,
\* historicalRevenue + projectedRevenue equals totalRevenue.
C1_PartitionReconstructsTotal ==
    (Called /\ HasAllWeeks(argWeekMultipliers) /\ IsDefined(argCurrentWeek)
        /\ Val(argCurrentWeek) \in 1..NumWeeks)
    => RAdd(metrics.historicalRevenue, metrics.projectedRevenue) = metrics.totalRevenue

\* The multiplier-weighted annual gastronomy revenue of the call
AnnualGastronomy ==
    IF HasAllWeeks(argWeekMultipliers)
    THEN SumWeighted(Val(argWeekMultipliers), weekly.gastronomyRevenuePerWeek)
    ELSE RMul(weekly.gastronomyRevenuePerWeek, WeeksPerYear)

\* C2 (as claimed): the annual net revenue and VAT exempt the gastronomy
\* revenue like the weekly split does: totalRevenue = (gross - G)/1.19 + G and
\* totalVAT = (gross - G) - (gross - G)/1.19; without multipliers
\* totalRevenue = 52 * baseWeeklyRevenue and totalVAT = 52 * weeklyVAT.
C2_AnnualSplitExemptsGastronomy ==
    Called =>
        LET forVAT == RSub(metrics.totalRevenueBrutto, AnnualGastronomy)
            net    == RDiv(forVAT, OnePlusVatRate)
        IN  /\ metrics.totalRevenue = RAdd(net, AnnualGastronomy)
            /\ metrics.totalVAT = RSub(forVAT, net)
            /\ ~HasAllWeeks(argWeekMultipliers) =>
                  /\ metrics.totalRevenue = RMul(metrics.baseWeeklyRevenue, WeeksPerYear)
                  /\ metrics.totalVAT = RMul(metrics.weeklyVAT, WeeksPerYear)

\* C4: calculateMetrics(inputs) with no currentWeek and no arrays returns, in
\* every field, what calculateMetrics(inputs, undefined, A, A) returns for
\* A = Array(52).fill(1.0).
C4_NoArraysEqualsAllOnes ==
    (Called /\ argCurrentWeek = Undefined /\ argWeekMultipliers = Undefined
        /\ argCostMultipliers = Undefined)
    => metrics = calculateMetrics(argInputs, Undefined, Some(AllOnes), Some(AllOnes))

\* C7: profitMargin and netProfitMargin are exactly 0 when totalRevenue <= 0,
\* and totalProfit / totalRevenue * 100 otherwise.
C7_MarginZeroGuard ==
    Called =>
        IF RGt(metrics.totalRevenue, Zero)
        THEN /\ metrics.profitMargin = RMul(RDiv(metrics.totalProfit, metrics.totalRevenue), Hundred)
             /\ metrics.netProfitMargin = metrics.profitMargin
        ELSE /\ metrics.profitMargin = Zero
             /\ metrics.netProfitMargin = Zero

C7_Witness ==
    /\ Called
    /\ RLt(metrics.totalRevenue, Zero)
    /\ RLt(metrics.totalProfit, Zero)

\* C8: raising gastronomyProfitPerTicket by delta, all other fields fixed,
\* raises baseWeeklyRevenue by exactly delta * ticketsPerWeek and leaves
\* weeklyVAT unchanged.
C8_GastronomyVatExempt ==
    Called =>
        \A delta \in DeltaChoices :
            LET raised == [argInputs EXCEPT !.gastronomyProfitPerTicket = RAdd(@, delta)]
                after  == calculateMetrics(raised, argCurrentWeek, argWeekMultipliers,
                                           argCostMultipliers)
            IN  /\ after.baseWeeklyRevenue =
                      RAdd(metrics.baseWeeklyRevenue, RMul(delta, argInputs.ticketsPerWeek))
                /\ after.weeklyVAT = metrics.weeklyVAT

\* C9: a weekMultipliers array whose length is not 52 is treated as absent,
\* whatever currentWeek and costMultipliers are: the metrics are those of the
\* call without arrays, the totals are the weekly figures times 52, the
\* historical values are 0 and the projected values are the annual totals.
C9_WrongLengthIsAbsent ==
    (Called /\ IsDefined(argWeekMultipliers) /\ Len(Val(argWeekMultipliers)) # 52)
    => /\ metrics = calculateMetrics(argInputs, argCurrentWeek, Undefined, Undefined)
       /\ metrics.totalRevenueBrutto = RMul(metrics.baseWeeklyRevenueBrutto, WeeksPerYear)
       /\ metrics.totalCosts = RMul(metrics.baseWeeklyCosts, WeeksPerYear)
       /\ metrics.historicalRevenue = Zero /\ metrics.historicalCosts = Zero
       /\ metrics.projectedRevenue = metrics.totalRevenue
       /\ metrics.projectedCosts = metrics.totalCosts

C9_Witness ==
    /\ Called
    /\ IsDefined(argWeekMultipliers) /\ Len(Val(argWeekMultipliers)) = 53
    /\ HasAllWeeks(argCostMultipliers)
    /\ IsDefined(argCurrentWeek)
    /\ RGt(metrics.totalCosts, Zero)

\* C10: with a 52-entry weekMultipliers, totalCosts is the sum over the 52
\* weeks of baseWeeklyCosts * costMultipliers[i] when costMultipliers has 52
\* entries, and of baseWeeklyCosts * weekMultipliers[i] otherwise.
C10_CostMultiplierFallback ==
    (Called /\ HasAllWeeks(argWeekMultipliers))
    => metrics.totalCosts =
          IF IsDefined(argCostMultipliers) /\ Len(Val(argCostMultipliers)) = 52
          THEN SumWeighted(Val(argCostMultipliers), metrics.baseWeeklyCosts)
          ELSE SumWeighted(Val(argWeekMultipliers), metrics.baseWeeklyCosts)

C10_Witness ==
    /\ Called
    /\ argWeekMultipliers = Some(TenWeeksOff)
    /\ argCostMultipliers = Some(Seasonal)
    /\ RGt(metrics.totalCosts, Zero)

\* C11: with currentWeek in 1..52 and a 52-entry weekMultipliers, the weeks
\* with 0-based index < currentWeek - 1 are historical and the others are
\* projected, for revenue and for costs (costs weighted by costMultipliers
\* when it has 52 entries, else by weekMultipliers), and projectedProfit is
\* projectedRevenue - projectedCosts.
C11_HistoricalBeforeCurrentWeek ==
    (Called /\ IsDefined(argCurrentWeek) /\ Val(argCurrentWeek) \in 1..52
        /\ IsDefined(argWeekMultipliers) /\ Len(Val(argWeekMultipliers)) = 52)
    => LET cw    == Val(argCurrentWeek)
           rev   == Val(argWeekMultipliers)
           costs == IF IsDefined(argCostMultipliers) /\ Len(Val(argCostMultipliers)) = 52
                    THEN Val(argCostMultipliers) ELSE rev
       IN  /\ metrics.historicalRevenue =
                 SumWeighted(SubSeq(rev, 1, cw - 1), metrics.baseWeeklyRevenue)
           /\ metrics.projectedRevenue =
                 SumWeighted(SubSeq(rev, cw, 52), metrics.baseWeeklyRevenue)
           /\ metrics.historicalCosts =
                 SumWeighted(SubSeq(costs, 1, cw - 1), metrics.baseWeeklyCosts)
           /\ metrics.projectedCosts =
                 SumWeighted(SubSeq(costs, cw, 52), metrics.baseWeeklyCosts)
           /\ metrics.projectedProfit =
                 RSub(metrics.projectedRevenue, metrics.projectedCosts)

C11_Witness ==
    /\ Called
    /\ argCurrentWeek = Some(27)
    /\ argWeekMultipliers = Some(TenWeeksOff)
    /\ argCostMultipliers = Some(Seasonal)
    /\ RGt(metrics.historicalRevenue, Zero)
    /\ RGt(metrics.historicalCosts, metrics.historicalRevenue)

\* C12: when currentWeek is absent, or weekMultipliers is absent or not of
\* length 52, the historical revenue and costs are 0 and the projected
\* revenue, costs and profit are the annual totals.
C12_NoSplitWithoutContext ==
    (Called /\ (~IsDefined(argCurrentWeek) \/ ~IsDefined(argWeekMultipliers)
                   \/ Len(Val(argWeekMultipliers)) # 52))
    => /\ metrics.historicalRevenue = Zero
       /\ metrics.historicalCosts = Zero
       /\ metrics.projectedRevenue = metrics.totalRevenue
       /\ metrics.projectedCosts = metrics.totalCosts
       /\ metrics.projectedProfit = metrics.totalProfit

C12_Witness ==
    /\ Called
    /\ ~IsDefined(argCurrentWeek)
    /\ argWeekMultipliers = Some(Seasonal)
    /\ RGt(metrics.projectedRevenue, Zero)
    /\ metrics.projectedRevenue # RMul(metrics.baseWeeklyRevenueBrutto, WeeksPerYear)

\* C17: calculateMetrics is side-effect free: the inputs record and both
\* multiplier arrays passed in are the same, element by element, before and
\* after the call.
C17_ArgumentsUntouched ==
    [][ (result = Undefined /\ result' # Undefined)
        => /\ DOMAIN argInputs' = DOMAIN argInputs
           /\ \A f \in DOMAIN argInputs : argInputs'[f] = argInputs[f]
           /\ argWeekMultipliers' = argWeekMultipliers
           /\ argCostMultipliers' = argCostMultipliers ]_vars

C17_Witness ==
    /\ Called
    /\ argCurrentWeek = Some(52)
    /\ argWeekMultipliers = Some(TenWeeksOff)
    /\ argCostMultipliers = Some(Seasonal)
    /\ RGt(metrics.historicalCosts, Zero)
    /\ metrics.totalCosts # metrics.historicalCosts

\* C27: whenever calculateMetrics is given a currentWeek (any integer, also
\* outside 1..52) and a 52-entry weekMultipliers, historicalCosts +
\* projectedCosts equals totalCosts, whether costMultipliers is absent, of
\* another length or of 52 entries.
C27_CostsPartitionTotal ==
    (Called /\ IsDefined(argCurrentWeek) /\ HasAllWeeks(argWeekMultipliers))
    => RAdd(metrics.historicalCosts, metrics.projectedCosts) = metrics.totalCosts

----------------------------------------------------------------------------
(* The system clock and the calendar week (useFinancialScenario.ts 52-58,  *)
(* preview/page.tsx 197-203).  Time is counted in whole hours of local     *)
(* time since 1 January 00:00; daylight saving shifts are not modelled.    *)

HoursPerDay == 24

DaysInYear(leapYear) == IF leapYear THEN 366 ELSE 365

\* const oneWeek = 1000 * 60 * 60 * 24 * 7 (milliseconds), here in hours
oneWeek == HoursPerDay * 7

\* Math.floor(diff / oneWeek) + 1 for diff = now - start of the year
WeekOfYear(diff) == (diff \div oneWeek) + 1

\* The program may be started at midnight of any day of a year
ClockInit ==
    now \in { [leapYear |-> l, hour |-> d * HoursPerDay] :
                 l \in BOOLEAN, d \in 0..(DaysInYear(TRUE) - 1) }
    /\ now.hour < DaysInYear(now.leapYear) * HoursPerDay

\* An hour passes within the year
HourPasses ==
    /\ now.hour + 1 < DaysInYear(now.leapYear) * HoursPerDay
    /\ now' = [now EXCEPT !.hour = @ + 1]
    /\ UNCHANGED <<calcVars, hookVars, libVars>>

\* Midnight of 31 December: the next year begins, leap or not
NewYear ==
    /\ now.hour + 1 = DaysInYear(now.leapYear) * HoursPerDay
    /\ \E l \in BOOLEAN : now' = [leapYear |-> l, hour |-> 0]
    /\ UNCHANGED <<calcVars, hookVars, libVars>>

----------------------------------------------------------------------------
(* financial-scenario.ts: scenarios.  A timestamp is the clock's hour.     *)

\* { ...base, ...over } for records given as functions on field names
Spread(base, over) ==
    [f \in (DOMAIN base) \cup (DOMAIN over) |-> IF f \in DOMAIN over THEN over[f] ELSE base[f]]

\* createFinancialScenario(name, inputs?) with the generated id and the time
createFinancialScenario(id, name, inputs, time) ==
    LET scenarioInputs == IF IsDefined(inputs)
                          THEN Spread(DEFAULT_FINANCIAL_INPUTS, Val(inputs))
                          ELSE DEFAULT_FINANCIAL_INPUTS
    IN  [ id |-> id, name |-> name, createdAt |-> time, updatedAt |-> time,
          inputs |-> scenarioInputs,
          metrics |-> calculateMetrics(scenarioInputs, Undefined, Undefined, Undefined) ]

\* A scenario created with no input at its default
createEmptyScenario_defaults(id, name, time) ==
    createFinancialScenario(id, name, Undefined, time)

\* createEmptyScenario(name) with the generated id and the time; the literal
\* of lines 234-267 names each of the 32 input fields with the value 0
createEmptyScenario(id, name, time) ==
    createFinancialScenario(id, name, Some(emptyInputs), time)

\* A migration that converts workshops per month to workshops per year on
\* each call
migrateScenario_workshopsPerYear(s) ==
    LET merged == Spread(DEFAULT_FINANCIAL_INPUTS, s.inputs)
        migratedInputs == [merged EXCEPT !.workshopsPerMonth = RMul(@, Twelve)]
    IN  [s EXCEPT !.inputs = migratedInputs,
                  !.metrics = calculateMetrics(migratedInputs, Undefined, Undefined, Undefined)]

\* A migration that fills the inputs and keeps the stored metrics
migrateScenario_keepsMetrics(s) ==
    [s EXCEPT !.inputs = Spread(DEFAULT_FINANCIAL_INPUTS, s.inputs)]

\* migrateScenario(scenario)
migrateScenario(s) ==
    LET migratedInputs == Spread(DEFAULT_FINANCIAL_INPUTS, s.inputs)
    IN  [s EXCEPT !.inputs = migratedInputs,
                  !.metrics = calculateMetrics(migratedInputs, Undefined, Undefined, Undefined)]

\* An update that computes the metrics from the inputs before the update
updateScenarioMetadata_staleInputs(s, updName, updInputs, time) ==
    [s EXCEPT !.name = IF IsDefined(updName) THEN Val(updName) ELSE s.name,
              !.inputs = IF IsDefined(updInputs) THEN Spread(s.inputs, Val(updInputs))
                         ELSE s.inputs,
              !.metrics = calculateMetrics(s.inputs, Undefined, Undefined, Undefined),
              !.updatedAt = time]

\* updateScenarioMetadata(scenario, {name?, inputs?}) at the given time
updateScenarioMetadata(s, updName, updInputs, time) ==
    LET updatedInputs == IF IsDefined(updInputs) THEN Spread(s.inputs, Val(updInputs))
                         ELSE s.inputs
    IN  [s EXCEPT !.name = IF IsDefined(updName) THEN Val(updName) ELSE s.name,
                  !.inputs = updatedInputs,
                  !.metrics = calculateMetrics(updatedInputs, Undefined, Undefined, Undefined),
                  !.updatedAt = time]

----------------------------------------------------------------------------
(* useFinancialScenario.ts                                                 *)

\* [...arr]: the copy has every index, undefined where arr lacks one
SpreadArray(arr) == [k \in 1..Len(arr) |-> IF arr[k] = Hole THEN UndefNum ELSE arr[k]]

\* const updated = [...arr]; updated[index] = value: an index beyond the end
\* grows the array and leaves the indices in between out, a negative index
\* sets a property and leaves the elements alone.
ArraySet(arr, index, value) ==
    IF index < 0 THEN SpreadArray(arr)
    ELSE IF index < Len(arr) THEN [SpreadArray(arr) EXCEPT ![index + 1] = value]
    ELSE [k \in 1..(index + 1) |->
             IF k <= Len(arr) THEN SpreadArray(arr)[k]
             ELSE IF k = index + 1 THEN value ELSE Hole]

\* arr[index]
ArrayGet(arr, index) ==
    IF index >= 0 /\ index < Len(arr) /\ arr[index + 1] # Hole
    THEN arr[index + 1] ELSE UndefNum

\* Lines 186-190: for (let i = start; i <= end && i < 52; i++) updated[i] = multiplier
FillRange(arr, start, end, multiplier) ==
    LET last == Min(end, 51)
    IN  IF last < start \/ last < 0 THEN SpreadArray(arr)
        ELSE [k \in 1..Max(Len(arr), last + 1) |->
                 IF k - 1 >= start /\ k - 1 <= last THEN multiplier
                 ELSE IF k <= Len(arr) THEN SpreadArray(arr)[k] ELSE Hole]

\* A cycle that goes from 1.0 back to 0 without the 1.2 step
ToggleValue_noStrongStep(current) ==
    IF current = Zero THEN Half
    ELSE IF current = Half \/ (RGt(current, Zero) /\ RLt(current, One)) THEN One
    ELSE Zero

\* Lines 204-212 and 283-291: the next value of the toggle cycle
ToggleValue(current) ==
    IF current = Zero THEN Half
    ELSE IF current = Half \/ (RGt(current, Zero) /\ RLt(current, One)) THEN One
    ELSE IF current = One THEN SixFifths
    ELSE Zero

\* A clamp without the lower limit: Math.min(2.0, value)
Clamp_upperOnly(value) ==
    IF ToNumber(value) = NaN THEN NaN
    ELSE IF RLt(value, Two) THEN ToNumber(value) ELSE Two

\* Math.max(0, Math.min(2.0, value)): NaN (and undefined) give NaN, null is 0
Clamp(value) ==
    IF ToNumber(value) = NaN THEN NaN
    ELSE IF RLt(value, Zero) THEN Zero
    ELSE IF RLt(value, Two) THEN ToNumber(value)
    ELSE Two

\* The hour of the clock as a timestamp (new Date().toISOString())
Timestamp == now.hour

\* Hours since 1 January at which the hook is mounted in the model:
\* 1 January, 2 July and 31 December
MountHours == {0, 182 * HoursPerDay, 364 * HoursPerDay}

\* Field edits made through updateInput: [key, value]
InputEdits ==
    { [key |-> k, value |-> Num(v)] :
        k \in {"ticketPrice", "gastronomyProfitPerTicket", "rent"}, v \in 0..MaxVal }

\* Partial records passed to updateInputs
InputUpdates ==
    { [rent |-> Num(2000), salaries |-> Num(1800), ticketPrice |-> Num(20)],
      [ticketsPerWeek |-> Zero] }

\* Scenarios passed to loadScenario: one saved before gastronomy and reserves
\* were input fields, and one complete scenario with stale metrics
LoadedScenarios ==
    { [ id |-> "id2", name |-> "Alt", createdAt |-> 0, updatedAt |-> 0,
        inputs |-> [f \in InputFields \ {"gastronomyProfitPerTicket", "weeklyReserves"}
                       |-> One],
        metrics |-> calculateMetrics(emptyInputs, Undefined, Undefined, Undefined) ],
      [ id |-> "id3", name |-> "Leer", createdAt |-> 0, updatedAt |-> 0,
        inputs |-> emptyInputs,
        metrics |-> calculateMetrics(DEFAULT_FINANCIAL_INPUTS, Undefined, Undefined, Undefined) ] }

NameChoices == {"Sommer"}

\* Week indices passed to the multiplier handlers
WeekIndexChoices == {-1, 0, 51, 52}

\* Multipliers and manual values passed to the handlers (manual values below
\* 0 and above 2.0 included)
MultiplierValues == {Zero, Half, Num(3), Num(-1)}

\* Numbers passed to the two manual handlers: NaN and the infinities as well
ManualValues == MultiplierValues \cup {NaN, Infinity, NegInfinity}

\* Values passed to the two manual handlers: a number or null
ManualInputs == ManualValues \cup {JsNull}

\* Arrays passed to updateWeekMultipliers and updateCostMultipliers
ArrayChoices == {Seasonal, TenWeeksOff, Fill(NumWeeks - 1, One), Fill(NumWeeks + 1, One)}

\* Ranges [start, end] passed to setWeekRange
RangeChoices == {<<50, 51>>, <<-1, 0>>, <<51, 60>>, <<3, 2>>}

\* Mount: the useState initialisers and the useMemo of currentWeek
InitHook ==
    /\ now \in { [leapYear |-> FALSE, hour |-> h] : h \in MountHours }
    /\ scenario = createFinancialScenario("id1", "Neues Szenario", Undefined, Timestamp)
    /\ weekMultipliers = Fill(52, One)
    /\ costMultipliers = Fill(52, One)
    /\ currentWeek = WeekOfYear(now.hour)
    /\ effectPending = TRUE
    /\ ops = 0
    /\ CalcIdle
    /\ LibIdle

\* A handler is called between renders: every scheduled effect has run.
HandlerCall ==
    /\ ~effectPending
    /\ ops < MaxOps
    /\ ops' = ops + 1
    /\ UNCHANGED <<calcVars, currentWeek, now, libVars>>

\* Lines 65-72: the effect on [scenario.inputs, currentWeek, weekMultipliers,
\* costMultipliers]; reading is what new Date() of line 70 gives
MetricsEffect(reading) ==
    /\ effectPending
    /\ scenario' = [scenario EXCEPT
            !.metrics = calculateMetrics(scenario.inputs, Some(currentWeek),
                                         Some(weekMultipliers), Some(costMultipliers)),
            !.updatedAt = reading]
    /\ effectPending' = FALSE
    /\ UNCHANGED <<weekMultipliers, costMultipliers, currentWeek, ops, calcVars, now, libVars>>

updateInput(key, value) ==
    /\ HandlerCall
    /\ scenario' = updateScenarioMetadata(scenario, Undefined,
                        Some(Spread(scenario.inputs, [f \in {key} |-> value])), Timestamp)
    /\ effectPending' = TRUE
    /\ UNCHANGED <<weekMultipliers, costMultipliers>>

updateInputs(updates) ==
    /\ HandlerCall
    /\ scenario' = updateScenarioMetadata(scenario, Undefined,
                        Some(Spread(scenario.inputs, updates)), Timestamp)
    /\ effectPending' = TRUE
    /\ UNCHANGED <<weekMultipliers, costMultipliers>>

resetToDefaults ==
    /\ HandlerCall
    /\ scenario' = updateScenarioMetadata(scenario, Undefined,
                        Some(DEFAULT_FINANCIAL_INPUTS), Timestamp)
    /\ effectPending' = TRUE
    /\ UNCHANGED <<weekMultipliers, costMultipliers>>

loadScenario(newScenario) ==
    /\ HandlerCall
    /\ scenario' = migrateScenario(newScenario)
    /\ effectPending' = TRUE
    /\ UNCHANGED <<weekMultipliers, costMultipliers>>

\* updateName keeps the inputs object: no dependency of the effect changes
updateName(name) ==
    /\ HandlerCall
    /\ scenario' = updateScenarioMetadata(scenario, Some(name), Undefined, Timestamp)
    /\ UNCHANGED <<weekMultipliers, costMultipliers, effectPending>>

\* sameArray: the caller passes the very array the hook holds; React then
\* finds the state unchanged (Object.is) and schedules no effect
updateWeekMultipliers(multipliers, sameArray) ==
    /\ HandlerCall
    /\ sameArray => multipliers = weekMultipliers
    /\ IF Len(multipliers) = 52 /\ ~sameArray
       THEN weekMultipliers' = multipliers /\ effectPending' = TRUE
       ELSE UNCHANGED <<weekMultipliers, effectPending>>
    /\ UNCHANGED <<scenario, costMultipliers>>

setWeekMultiplier(weekIndex, multiplier) ==
    /\ HandlerCall
    /\ weekMultipliers' = ArraySet(weekMultipliers, weekIndex, multiplier)
    /\ effectPending' = TRUE
    /\ UNCHANGED <<scenario, costMultipliers>>

setWeekRange(start, end, multiplier) ==
    /\ HandlerCall
    /\ weekMultipliers' = FillRange(weekMultipliers, start, end, multiplier)
    /\ effectPending' = TRUE
    /\ UNCHANGED <<scenario, costMultipliers>>

\* A toggle of the revenue multiplier that leaves the cost multipliers alone
ToggleWeek_costsUntouched(weekIndex) ==
    /\ weekMultipliers' = ArraySet(weekMultipliers, weekIndex,
                                    ToggleValue(ArrayGet(weekMultipliers, weekIndex)))
    /\ effectPending' = TRUE
    /\ UNCHANGED <<scenario, costMultipliers>>

\* Lines 195-236: the state updates of toggleWeekMultiplier
ToggleWeek(weekIndex) ==
    LET newValue == ToggleValue(ArrayGet(weekMultipliers, weekIndex))
    IN  /\ weekMultipliers' = ArraySet(weekMultipliers, weekIndex, newValue)
        /\ costMultipliers' =
              IF newValue = Zero THEN ArraySet(costMultipliers, weekIndex, Zero)
              ELSE IF ArrayGet(costMultipliers, weekIndex) = Zero
                   THEN ArraySet(costMultipliers, weekIndex, newValue)
                   ELSE SpreadArray(costMultipliers)
        /\ effectPending' = TRUE
        /\ UNCHANGED scenario

toggleWeekMultiplier(weekIndex) == HandlerCall /\ ToggleWeek(weekIndex)

setWeekMultiplierManually(weekIndex, value) ==
    LET clampedValue == Clamp(value)
    IN  /\ HandlerCall
        /\ weekMultipliers' = ArraySet(weekMultipliers, weekIndex, clampedValue)
        /\ costMultipliers' =
              IF clampedValue = Zero THEN ArraySet(costMultipliers, weekIndex, Zero)
              ELSE costMultipliers
        /\ effectPending' = TRUE
        /\ UNCHANGED scenario

setCostMultiplierManually(weekIndex, value) ==
    /\ HandlerCall
    /\ costMultipliers' = ArraySet(costMultipliers, weekIndex, Clamp(value))
    /\ effectPending' = TRUE
    /\ UNCHANGED <<scenario, weekMultipliers>>

\* Lines 277-293: the state update of toggleCostMultiplier
ToggleCost(weekIndex) ==
    /\ costMultipliers' =
          ArraySet(costMultipliers, weekIndex, ToggleValue(ArrayGet(costMultipliers, weekIndex)))
    /\ effectPending' = TRUE
    /\ UNCHANGED <<scenario, weekMultipliers>>

toggleCostMultiplier(weekIndex) == HandlerCall /\ ToggleCost(weekIndex)

updateCostMultipliers(multipliers, sameArray) ==
    /\ HandlerCall
    /\ sameArray => multipliers = costMultipliers
    /\ IF Len(multipliers) = 52 /\ ~sameArray
       THEN costMultipliers' = multipliers /\ effectPending' = TRUE
       ELSE UNCHANGED <<costMultipliers, effectPending>>
    /\ UNCHANGED <<scenario, weekMultipliers>>

\* One queued state update of weekMultipliers: an updater function (the
\* range fill of setWeekRange) is applied to the state the updates before it
\* left, a plain value replaces that state.
ApplyUpdate(state, update) ==
    IF update.kind = "fillRange"
    THEN FillRange(state, update.start, update.end, update.multiplier)
    ELSE update.value

\* React applies the updates queued by one handler in the order of the calls
RECURSIVE ApplyQueue(_, _, _)
ApplyQueue(state, queue, k) ==
    IF k > Len(queue) THEN state ELSE ApplyQueue(ApplyUpdate(state, queue[k]), queue, k + 1)

\* Preview page, markChristmasWeak: setWeekRange(50, 51, 0.5) queues the
\* range fill; newMultipliers is a copy of the rendered weekMultipliers with
\* entry 0 set to 0.5, which updateWeekMultipliers queues as the new value if
\* it has 52 entries.
ChristmasUpdates(rendered) ==
    <<[kind |-> "fillRange", start |-> 50, end |-> 51, multiplier |-> Half]>>
    \o (IF Len(ArraySet(rendered, 0, Half)) = 52
        THEN <<[kind |-> "value", value |-> ArraySet(rendered, 0, Half)]>>
        ELSE <<>>)

markChristmasWeak ==
    /\ HandlerCall
    /\ weekMultipliers' = ApplyQueue(weekMultipliers, ChristmasUpdates(weekMultipliers), 1)
    /\ effectPending' = TRUE
    /\ UNCHANGED <<scenario, costMultipliers>>

NextHook ==
    \/ MetricsEffect(Timestamp)
    \/ markChristmasWeak
    \/ \E e \in InputEdits : updateInput(e.key, e.value)
    \/ \E u \in InputUpdates : updateInputs(u)
    \/ resetToDefaults
    \/ \E s \in LoadedScenarios : loadScenario(s)
    \/ \E n \in NameChoices : updateName(n)
    \/ \E a \in ArrayChoices : updateWeekMultipliers(a, FALSE)
    \/ \E i \in WeekIndexChoices, m \in MultiplierValues : setWeekMultiplier(i, m)
    \/ \E r \in RangeChoices, m \in MultiplierValues : setWeekRange(r[1], r[2], m)
    \/ \E i \in WeekIndexChoices : toggleWeekMultiplier(i)
    \/ \E i \in WeekIndexChoices, v \in ManualInputs : setWeekMultiplierManually(i, v)
    \/ \E i \in WeekIndexChoices, v \in ManualInputs : setCostMultiplierManually(i, v)
    \/ \E i \in WeekIndexChoices : toggleCostMultiplier(i)
    \/ \E a \in ArrayChoices : updateCostMultipliers(a, FALSE)
    \/ \E same \in {TRUE} : updateWeekMultipliers(weekMultipliers, same)
    \/ \E same \in {TRUE} : updateCostMultipliers(costMultipliers, same)

SpecHook == InitHook /\ [][NextHook]_vars

\* C3 (as claimed): once the pending effects have run, scenario.metrics is
\* calculateMetrics(scenario.inputs, currentWeek, weekMultipliers,
\* costMultipliers).
C3_MetricsFollowInputs ==
    ~effectPending =>
        scenario.metrics = calculateMetrics(scenario.inputs, Some(currentWeek),
                                            Some(weekMultipliers), Some(costMultipliers))

\* C5 (as claimed): weekMultipliers and costMultipliers always have exactly
\* 52 entries.
C5_AlwaysFiftyTwoWeeks == Len(weekMultipliers) = 52 /\ Len(costMultipliers) = 52

\* The entries of the 52 weeks other than index are the same in both arrays
SameElsewhere(old, new, index) ==
    \A k \in 0..(NumWeeks - 1) : k # index => ArrayGet(new, k) = ArrayGet(old, k)

\* max(0, min(2.0, value)) of a number; NaN stays NaN
ClampedTo(value) ==
    IF value = NaN THEN NaN
    ELSE IF RGt(value, Two) THEN Two
    ELSE IF RLt(value, Zero) THEN Zero
    ELSE value

\* C22: whenever toggleWeekMultiplier or setWeekMultiplierManually sets the
\* revenue multiplier of a week to 0, the cost multiplier of that week is 0
\* afterwards; when toggleWeekMultiplier sets the revenue multiplier to a
\* non-zero value, the cost multiplier of the week becomes that value if it
\* was 0 and is left as it was otherwise.
C22_ExcludedWeekHasNoCosts ==
    [][ \A i \in { k \in WeekIndexChoices : k >= 0 } :
          /\ toggleWeekMultiplier(i) =>
                IF ArrayGet(weekMultipliers', i) = Zero
                THEN ArrayGet(costMultipliers', i) = Zero
                ELSE IF ArrayGet(costMultipliers, i) = Zero
                     THEN ArrayGet(costMultipliers', i) = ArrayGet(weekMultipliers', i)
                     ELSE costMultipliers' = costMultipliers
          /\ \A v \in ManualInputs :
                (setWeekMultiplierManually(i, v) /\ ArrayGet(weekMultipliers', i) = Zero)
                    => ArrayGet(costMultipliers', i) = Zero ]_vars

\* Week 1 was toggled from 1.0 to 1.2 with its cost multiplier left at 1.0,
\* and week 52 was set to 0 by hand, which took its cost multiplier to 0
C22_Witness ==
    /\ ops = 2
    /\ ArrayGet(weekMultipliers, 0) = SixFifths
    /\ ArrayGet(costMultipliers, 0) = One
    /\ ArrayGet(weekMultipliers, 51) = Zero
    /\ ArrayGet(costMultipliers, 51) = Zero

\* C24 (as claimed): after markChristmasWeak the revenue multipliers of week
\* 1 (index 0), week 51 (index 50) and week 52 (index 51) are all 0.5 and
\* every other week has the value it had before.
C24_ChristmasWeeksWeak ==
    [][ markChristmasWeak =>
          /\ ArrayGet(weekMultipliers', 0) = Half
          /\ ArrayGet(weekMultipliers', 50) = Half
          /\ ArrayGet(weekMultipliers', 51) = Half
          /\ \A k \in 0..(NumWeeks - 1) \ {0, 50, 51} :
                ArrayGet(weekMultipliers', k) = ArrayGet(weekMultipliers, k) ]_vars

\* C23: setWeekMultiplierManually and setCostMultiplierManually store
\* max(0, min(2.0, value)) at the given week for every number passed, and
\* leave all other weeks of that sequence as they were.
C23_ManualValueClamped ==
    [][ \A i \in WeekIndexChoices, v \in ManualValues :
          /\ setWeekMultiplierManually(i, v) =>
                /\ i >= 0 => ArrayGet(weekMultipliers', i) = ClampedTo(v)
                /\ SameElsewhere(weekMultipliers, weekMultipliers', i)
          /\ setCostMultiplierManually(i, v) =>
                /\ i >= 0 => ArrayGet(costMultipliers', i) = ClampedTo(v)
                /\ SameElsewhere(costMultipliers, costMultipliers', i) ]_vars

\* 300% was entered for the revenue of week 52 and -100% for the costs of
\* week 1: 2.0 and 0 are stored
C23_Witness ==
    /\ ops = 2
    /\ ArrayGet(weekMultipliers, 51) = Two
    /\ ArrayGet(costMultipliers, 0) = Zero
    /\ ArrayGet(weekMultipliers, 0) = One
    /\ SameElsewhere(Fill(NumWeeks, One), costMultipliers, 0)

----------------------------------------------------------------------------
(* The two toggle handlers called again and again (specification           *)
(* SpecToggle)                                                             *)

\* Week indices toggled: weeks 1 and 5, which hold 1.0, 0, 1.2 and 0.7 in
\* the arrays of ArrayChoices
ToggleIndexChoices == {0, 4}

InitToggle == InitHook /\ now.hour = 0

\* toggleWeekMultiplier(index) (sequence "revenue") or
\* toggleCostMultiplier(index) (sequence "cost"), called after the pending
\* effect has run.  toggleRun records the entry, the value it had before the
\* first toggle of the run and before this one, and the number of toggles of
\* that entry with no other handler call in between.
ToggleCall(sequence, index) ==
    LET before == ArrayGet(IF sequence = "revenue" THEN weekMultipliers ELSE costMultipliers,
                           index)
        continues == /\ IsDefined(toggleRun)
                     /\ Val(toggleRun).sequence = sequence
                     /\ Val(toggleRun).index = index
                     /\ Val(toggleRun).ops = ops
    IN  /\ ~effectPending
        /\ ops < MaxToggleOps
        /\ ops' = ops + 1
        /\ toggleRun' = Some([ sequence |-> sequence, index |-> index,
                               start |-> IF continues THEN Val(toggleRun).start ELSE before,
                               before |-> before,
                               count |-> IF continues THEN Val(toggleRun).count + 1 ELSE 1,
                               ops |-> ops + 1 ])
        /\ IF sequence = "revenue" THEN ToggleWeek(index) ELSE ToggleCost(index)
        /\ UNCHANGED <<calcVars, currentWeek, now, fnVars, nowMs, storeVars, mgrVars, syncDeps>>

NextToggle ==
    \/ MetricsEffect(Timestamp)
    \/ \E a \in ArrayChoices : updateWeekMultipliers(a, FALSE)
    \/ \E a \in ArrayChoices : updateCostMultipliers(a, FALSE)
    \/ \E i \in ToggleIndexChoices : ToggleCall("revenue", i)
    \/ \E i \in ToggleIndexChoices : ToggleCall("cost", i)

SpecToggle == InitToggle /\ [][NextToggle]_vars

\* The four values of the cycle
CycleValues == {Zero, Half, One, SixFifths}

\* The entry of the run as it is now
Toggled ==
    ArrayGet(IF Val(toggleRun).sequence = "revenue" THEN weekMultipliers ELSE costMultipliers,
             Val(toggleRun).index)

\* C21: a toggle of either sequence takes 0 to 0.5, a value strictly between
\* 0 and 1.0 to 1.0, 1.0 to 1.2 and every other value to 0, so the toggled
\* entry is one of 0, 0.5, 1.0, 1.2; four consecutive toggles of one entry
\* that held one of these four values bring it back to that value.
C21_ToggleCycle ==
    (IsDefined(toggleRun) /\ Val(toggleRun).ops = ops) =>
        /\ Val(toggleRun).before = Zero => Toggled = Half
        /\ (RGt(Val(toggleRun).before, Zero) /\ RLt(Val(toggleRun).before, One))
               => Toggled = One
        /\ Val(toggleRun).before = One => Toggled = SixFifths
        /\ (~RLt(Val(toggleRun).before, One) /\ Val(toggleRun).before # One) => Toggled = Zero
        /\ RLt(Val(toggleRun).before, Zero) => Toggled = Zero
        /\ Toggled \in CycleValues
        /\ (Val(toggleRun).count = 4 /\ Val(toggleRun).start \in CycleValues)
               => Toggled = Val(toggleRun).start

\* The revenue multiplier of week 1 was loaded as 1.2 and toggled four times
C21_Witness ==
    /\ IsDefined(toggleRun)
    /\ Val(toggleRun).ops = ops
    /\ Val(toggleRun).sequence = "revenue"
    /\ Val(toggleRun).index = 0
    /\ Val(toggleRun).count = 4
    /\ Val(toggleRun).start = SixFifths
    /\ Val(toggleRun).before = One
    /\ Toggled = SixFifths

InitClock == ClockInit /\ CalcIdle /\ HookIdle /\ LibIdle

NextClock == HourPasses \/ NewYear

SpecClock == InitClock /\ [][NextClock]_vars

\* C6 (as claimed): the current week computed from the system date is in
\* 1..52 on every date of every year.
C6_WeekWithinYear == WeekOfYear(now.hour) \in 1..52

----------------------------------------------------------------------------
(* The scenario functions of financial-scenario.ts called one after the    *)
(* other on a scenario (specification SpecScenario)                        *)

\* Scenarios the functions are first called on: a new one, the two of
\* LoadedScenarios (one lacks two input fields), and one without any input
\* field
ScenarioChoices ==
    { createFinancialScenario("id1", "Neues Szenario", Undefined, 0) }
    \cup LoadedScenarios
    \cup { [ id |-> "id4", name |-> "", createdAt |-> 0, updatedAt |-> 0,
             inputs |-> [f \in {} |-> Zero],
             metrics |-> calculateMetrics(emptyInputs, Undefined, Undefined, Undefined) ] }

\* The updates passed to updateScenarioMetadata: [name?, inputs?]
UpdateChoices ==
    { [name |-> n, inputs |-> i] :
        n \in {Undefined, Some("Sommer")},
        i \in {Undefined, Some([f \in {} |-> Zero]),
               Some([rent |-> Num(2000), gastronomyProfitPerTicket |-> Num(5)])} }

\* crypto.randomUUID()
NewIds == {"id8", "id9"}

InitScenario ==
    /\ fnScenario \in { Some(s) : s \in ScenarioChoices }
    /\ fnPrev = Undefined
    /\ fnUpdates = Undefined
    /\ fnOp = "none"
    /\ fnCalls = 0
    /\ nowMs = 0
    /\ StoreIdle /\ MgrIdle
    /\ CalcIdle /\ HookIdle /\ ClockIdle /\ PageIdle

\* One more call of a scenario function
FnCall ==
    /\ fnCalls < MaxCalls
    /\ fnCalls' = fnCalls + 1
    /\ UNCHANGED <<appVars, nowMs, storeVars, mgrVars>>

\* migrateScenario(fnScenario)
Migrate ==
    /\ FnCall
    /\ fnPrev' = fnScenario
    /\ fnUpdates' = Undefined
    /\ fnScenario' = Some(migrateScenario(Val(fnScenario)))
    /\ fnOp' = "migrateScenario"

\* createEmptyScenario(name)
CreateEmpty(id, name) ==
    /\ FnCall
    /\ fnPrev' = Undefined
    /\ fnUpdates' = Undefined
    /\ fnScenario' = Some(createEmptyScenario(id, name, nowMs))
    /\ fnOp' = "createEmptyScenario"

\* updateScenarioMetadata(fnScenario, updates)
UpdateMetadata(updates) ==
    /\ FnCall
    /\ fnPrev' = fnScenario
    /\ fnUpdates' = Some(updates)
    /\ fnScenario' = Some(updateScenarioMetadata(Val(fnScenario), updates.name,
                                                 updates.inputs, nowMs))
    /\ fnOp' = "updateScenarioMetadata"

\* A millisecond passes
Tick ==
    /\ nowMs < MaxTime
    /\ nowMs' = nowMs + 1
    /\ UNCHANGED <<appVars, fnVars, storeVars, mgrVars>>

NextScenario ==
    \/ Migrate
    \/ \E id \in NewIds : CreateEmpty(id, "Leeres Szenario")
    \/ \E u \in UpdateChoices : UpdateMetadata(u)
    \/ Tick

SpecScenario == InitScenario /\ [][NextScenario]_vars

\* The value of an input field of a record that may lack it, as the spread
\* { ...fallback, ...inputs } reads it
FieldOr(inputs, fallback, f) == IF f \in DOMAIN inputs THEN inputs[f] ELSE fallback[f]

\* C13: migrateScenario is idempotent on inputs: migrating a scenario that
\* migrateScenario returned gives the same inputs, field by field.
C13_MigrateIdempotentOnInputs ==
    fnOp = "migrateScenario" =>
        LET once  == Val(fnScenario)
            twice == migrateScenario(once)
        IN  /\ DOMAIN twice.inputs = DOMAIN once.inputs
            /\ \A f \in DOMAIN once.inputs : twice.inputs[f] = once.inputs[f]

C13_Witness ==
    /\ fnOp = "migrateScenario"
    /\ "gastronomyProfitPerTicket" \notin DOMAIN Val(fnPrev).inputs
    /\ Val(fnScenario).inputs.gastronomyProfitPerTicket = Num(3)
    /\ Val(fnScenario).inputs.workshopsPerMonth = One

\* C14: migrateScenario keeps every input field present in the scenario,
\* gives every absent field its value of DEFAULT_FINANCIAL_INPUTS, sets
\* metrics to calculateMetrics of the merged inputs and leaves id, name,
\* createdAt and updatedAt unchanged.
C14_MigrateFillsDefaults ==
    fnOp = "migrateScenario" =>
        LET before == Val(fnPrev)
            after  == Val(fnScenario)
        IN  /\ DOMAIN after.inputs = InputFields \cup DOMAIN before.inputs
            /\ \A f \in DOMAIN after.inputs :
                   after.inputs[f] = FieldOr(before.inputs, DEFAULT_FINANCIAL_INPUTS, f)
            /\ after.metrics = calculateMetrics(after.inputs, Undefined, Undefined, Undefined)
            /\ after.id = before.id
            /\ after.name = before.name
            /\ after.createdAt = before.createdAt
            /\ after.updatedAt = before.updatedAt

C14_Witness ==
    /\ fnOp = "migrateScenario"
    /\ DOMAIN Val(fnPrev).inputs = InputFields \ {"gastronomyProfitPerTicket", "weeklyReserves"}
    /\ Val(fnScenario).metrics # Val(fnPrev).metrics
    /\ Val(fnScenario).inputs.ticketPrice = One

\* C15: createEmptyScenario returns a scenario in which every field of
\* inputs is 0 and every field of metrics is exactly 0.
C15_EmptyScenarioAllZero ==
    fnOp = "createEmptyScenario" =>
        LET empty == Val(fnScenario)
        IN  /\ DOMAIN empty.inputs = InputFields
            /\ \A f \in InputFields : empty.inputs[f] = Zero
            /\ \A m \in DOMAIN empty.metrics : empty.metrics[m] = Zero

C15_Witness ==
    /\ fnOp = "createEmptyScenario"
    /\ Val(fnScenario).name = "Leeres Szenario"
    /\ Val(fnScenario).metrics.profitMargin = Zero
    /\ DEFAULT_FINANCIAL_INPUTS.gastronomyProfitPerTicket # Zero

\* C16: updateScenarioMetadata returns a scenario whose inputs are
\* scenario.inputs overlaid by updates.inputs (unchanged for an update
\* without inputs) and whose metrics are calculateMetrics of the returned
\* inputs.
C16_UpdateRecomputesFromNewInputs ==
    fnOp = "updateScenarioMetadata" =>
        LET before == Val(fnPrev)
            after  == Val(fnScenario)
            upd    == Val(fnUpdates).inputs
        IN  /\ IF IsDefined(upd)
               THEN /\ DOMAIN after.inputs = DOMAIN before.inputs \cup DOMAIN Val(upd)
                    /\ \A f \in DOMAIN after.inputs :
                           after.inputs[f] = FieldOr(Val(upd), before.inputs, f)
               ELSE after.inputs = before.inputs
            /\ after.metrics = calculateMetrics(after.inputs, Undefined, Undefined, Undefined)

C16_Witness ==
    /\ fnOp = "updateScenarioMetadata"
    /\ IsDefined(Val(fnUpdates).inputs)
    /\ "rent" \in DOMAIN Val(fnPrev).inputs
    /\ Val(fnPrev).inputs.rent = Zero
    /\ Val(fnScenario).inputs.rent = Num(2000)
    /\ Val(fnScenario).metrics # Val(fnPrev).metrics

----------------------------------------------------------------------------
(* scenario-storage (src/unnamed/part_003): the scenarios kept as one JSON  *)
(* array under one localStorage key.  A timestamp is the millisecond clock *)
(* at the call; NoTime is the empty string where a timestamp is expected.  *)

NoTime == -1

\* JSON.parse(JSON.stringify(rec)) for a record of numbers: a field holding
\* undefined is left out, a non-finite number is read back as null
JsonNumbers(rec) ==
    [f \in { g \in DOMAIN rec : rec[g] # UndefNum } |->
        IF IsFinite(rec[f]) THEN rec[f] ELSE JsNull]

\* JSON.parse(JSON.stringify(scenario)): strings are read back as written
JsonScenario(s) == [s EXCEPT !.inputs = JsonNumbers(@), !.metrics = JsonNumbers(@)]

\* JSON.parse(JSON.stringify(scenarios))
JsonList(list) == [k \in 1..Len(list) |-> JsonScenario(list[k])]

\* Line 55, the comparator: new Date(b.updatedAt).getTime() -
\* new Date(a.updatedAt).getTime().  With an updatedAt that is no date the
\* difference is NaN, which Array.prototype.sort takes as 0.
CompareUpdatedAt(a, b) ==
    IF a.updatedAt = NoTime \/ b.updatedAt = NoTime THEN 0 ELSE b.updatedAt - a.updatedAt

\* The sort of the engine (V8) for arrays of fewer than 64 entries: the run
\* the array starts with, of k entries so far, is extended while the order of
\* each entry to the one before it keeps the direction of the run
RECURSIVE RunEnd(_, _, _)
RunEnd(list, descending, k) ==
    IF k = Len(list) THEN k
    ELSE IF descending = (CompareUpdatedAt(list[k + 1], list[k]) < 0)
         THEN RunEnd(list, descending, k + 1)
         ELSE k

\* The position at which the binary search between left and right (counted
\* from 0) inserts pivot
RECURSIVE InsertionPoint(_, _, _, _)
InsertionPoint(list, pivot, left, right) ==
    IF left >= right THEN left
    ELSE IF CompareUpdatedAt(pivot, list[left + ((right - left) \div 2) + 1]) < 0
         THEN InsertionPoint(list, pivot, left, left + ((right - left) \div 2))
         ELSE InsertionPoint(list, pivot, left + ((right - left) \div 2) + 1, right)

\* Binary insertion of the entries from position start (counted from 1) on
\* into the sorted entries before them
RECURSIVE InsertFrom(_, _)
InsertFrom(list, start) ==
    IF start > Len(list) THEN list
    ELSE LET at == InsertionPoint(list, list[start], 0, start - 1)
         IN  InsertFrom(SubSeq(list, 1, at) \o <<list[start]>> \o SubSeq(list, at + 1, start - 1)
                            \o SubSeq(list, start + 1, Len(list)),
                        start + 1)

\* The entries 1..k in reverse order, the others as they are
ReverseRun(list, k) == [p \in 1..Len(list) |-> IF p <= k THEN list[k + 1 - p] ELSE list[p]]

\* scenarios.sort(comparator): with valid dates the stable sort by descending
\* updatedAt
SortByUpdatedAt(list) ==
    IF Len(list) < 2 THEN list
    ELSE LET descending == CompareUpdatedAt(list[2], list[1]) < 0
             run == RunEnd(list, descending, 2)
         IN  InsertFrom(IF descending THEN ReverseRun(list, run) ELSE list, run + 1)

Missing == [kind |-> "missing", items |-> <<>>]

\* Lines 42-55, the try block of loadScenarios(): the list returned, the
\* store it leaves and whether it threw.  The value under the key is
\* missing (getItem gives null), the empty string ("empty"), a text that
\* JSON.parse rejects ("unparseable"), the JSON text of a value that is not
\* an array ("object"), or that of an array of scenarios ("array").
TryLoad(store) ==
    IF store.kind \in {"missing", "empty"}
    THEN [result |-> <<>>, store |-> store, threw |-> FALSE]
    ELSE IF store.kind = "unparseable"
    THEN [result |-> <<>>, store |-> store, threw |-> TRUE]
    ELSE IF store.kind = "array"
    THEN [result |-> SortByUpdatedAt(store.items), store |-> store, threw |-> FALSE]
    ELSE [result |-> <<>>, store |-> Missing, threw |-> FALSE]

\* loadScenarios() without its catch block
loadScenarios_noCatch(store) == TryLoad(store)

\* loadScenarios(): lines 56-65 catch what the try block throws, remove the
\* key and return [].
loadScenarios(store) ==
    LET caught(tried) ==
            IF tried.threw
            THEN [result |-> <<>>, store |-> Missing, threw |-> FALSE]
            ELSE tried
    IN  caught(TryLoad(store))

\* scenarios.findIndex((s) => s.id === id), 0 when there is none
FindIndex(list, id) ==
    IF \E k \in 1..Len(list) : list[k].id = id
    THEN CHOOSE k \in 1..Len(list) :
             list[k].id = id /\ \A j \in 1..(k - 1) : list[j].id # id
    ELSE 0

\* The n readings of the clock (new Date()) that one call can take, in
\* order: the first is the time of the call, and any time can pass between
\* one reading and the next
ClockReadings(n) ==
    { reads \in [1..n -> nowMs..MaxTime] :
          reads[1] = nowMs /\ \A k \in 1..(n - 1) : reads[k] <= reads[k + 1] }

\* The clock when the call returns
Ticked(reads) == nowMs' = reads[Len(reads)]

\* No time passes during the call
NoTimePasses(reads) == reads[Len(reads)] = nowMs /\ UNCHANGED nowMs

\* Lines 92-96: the appended scenario; the clock is read for createdAt only
\* when the scenario has none, and then once more for updatedAt
Appended(toSave, reads) ==
    IF toSave.createdAt = NoTime
    THEN [toSave EXCEPT !.createdAt = reads[1], !.updatedAt = reads[2]]
    ELSE [toSave EXCEPT !.updatedAt = reads[1]]

\* A save that always appends
SaveList_alwaysAppend(scenarios, toSave, reads) ==
    Append(scenarios, Appended(toSave, reads))

\* Lines 82-97: the list after the scenario is replaced or appended; reads
\* are the readings of the clock from the call on
SaveList(scenarios, toSave, reads) ==
    IF FindIndex(scenarios, toSave.id) > 0
    THEN [scenarios EXCEPT ![FindIndex(scenarios, toSave.id)] =
                               [toSave EXCEPT !.updatedAt = reads[1]]]
    ELSE Append(scenarios, Appended(toSave, reads))

\* saveScenario(scenario): the value returned and the store it leaves;
\* setItemOk is whether localStorage.setItem accepts the write
saveScenario(store, toSave, reads, setItemOk) ==
    IF setItemOk
    THEN [ok |-> TRUE,
          store |-> [kind |-> "array",
                     items |-> JsonList(SaveList(loadScenarios(store).result, toSave, reads))]]
    ELSE [ok |-> FALSE, store |-> loadScenarios(store).store]

\* A filter that keeps the entries up to the first one with the id only
FilterOut_truncates(list, id) ==
    IF FindIndex(list, id) > 0 THEN SubSeq(list, 1, FindIndex(list, id) - 1) ELSE list

\* scenarios.filter((s) => s.id !== id)
FilterOut(list, id) == SelectSeq(list, LAMBDA x : x.id # id)

\* deleteScenario(id)
deleteScenario(store, id, setItemOk) ==
    IF setItemOk
    THEN [ok |-> TRUE,
          store |-> [kind |-> "array",
                     items |-> JsonList(FilterOut(loadScenarios(store).result, id))]]
    ELSE [ok |-> FALSE, store |-> loadScenarios(store).store]

----------------------------------------------------------------------------
(* The storage functions called one after the other on a store that is     *)
(* empty or holds a value no saveScenario wrote (specification SpecStorage) *)

\* The metrics of a scenario without any revenue or cost
zeroMetrics == calculateMetrics(emptyInputs, Undefined, Undefined, Undefined)

\* Scenarios passed to saveScenario: two names for each of two ids, one
\* without createdAt, and one whose inputs lack fields, so that its
\* metrics are NaN or undefined
SavedScenarios ==
    { [ id |-> i, name |-> n, createdAt |-> 0, updatedAt |-> 0,
        inputs |-> emptyInputs, metrics |-> zeroMetrics ] :
          i \in {"id1", "id2"}, n \in {"A", "B"} }
    \cup { [ id |-> "id1", name |-> "C", createdAt |-> NoTime, updatedAt |-> 0,
             inputs |-> emptyInputs, metrics |-> zeroMetrics ] }
    \cup { [ id |-> "id2", name |-> "Alt", createdAt |-> 0, updatedAt |-> 0,
             inputs |-> [f \in InputFields \ {"gastronomyProfitPerTicket", "weeklyReserves"}
                            |-> One],
             metrics |-> calculateMetrics(
                 [f \in InputFields \ {"gastronomyProfitPerTicket", "weeklyReserves"}
                     |-> One], Undefined, Undefined, Undefined) ] }

DeletedIds == {"id1", "id2"}

\* Values found under the key by the first call: none, and three that no
\* saveScenario wrote
FoundStores ==
    { Missing } \cup { [kind |-> k, items |-> <<>>] : k \in {"empty", "unparseable", "object"} }

InitStorage ==
    /\ storage \in FoundStores
    /\ lastCall = [op |-> "none"]
    /\ lastSaved = Undefined
    /\ loaded = Undefined
    /\ storeOps = 0
    /\ MgrIdle
    /\ FnIdle
    /\ nowMs = 0
    /\ CalcIdle /\ HookIdle /\ ClockIdle /\ PageIdle

\* One more call of a storage function
StoreCall ==
    /\ storeOps < MaxStoreOps
    /\ storeOps' = storeOps + 1
    /\ UNCHANGED <<appVars, fnVars, mgrVars>>

\* saveScenario(scenario)
SaveScenario(toSave, reads, setItemOk) ==
    /\ StoreCall
    /\ Ticked(reads)
    /\ storage' = saveScenario(storage, toSave, reads, setItemOk).store
    /\ lastCall' = [op |-> "saveScenario", arg |-> toSave, ok |-> setItemOk,
                    before |-> loadScenarios(storage).result, reads |-> reads]
    /\ lastSaved' = IF setItemOk THEN Some(toSave.id) ELSE lastSaved
    /\ loaded' = Undefined

\* deleteScenario(id)
DeleteScenario(id, setItemOk) ==
    /\ StoreCall
    /\ UNCHANGED nowMs
    /\ storage' = deleteScenario(storage, id, setItemOk).store
    /\ lastCall' = [op |-> "deleteScenario", arg |-> id, ok |-> setItemOk,
                    before |-> loadScenarios(storage).result]
    /\ lastSaved' = IF setItemOk /\ lastSaved = Some(id) THEN Undefined ELSE lastSaved
    /\ loaded' = Undefined

\* loadScenarios()
LoadScenarios ==
    /\ StoreCall
    /\ UNCHANGED nowMs
    /\ storage' = loadScenarios(storage).store
    /\ loaded' = Some(loadScenarios(storage).result)
    /\ lastCall' = [op |-> "loadScenarios", found |-> storage.kind,
                    threw |-> loadScenarios(storage).threw]
    /\ UNCHANGED lastSaved

NextStorage ==
    \/ \E s \in SavedScenarios, reads \in ClockReadings(2), ok \in BOOLEAN :
          SaveScenario(s, reads, ok)
    \/ \E id \in DeletedIds, ok \in BOOLEAN : DeleteScenario(id, ok)
    \/ LoadScenarios
    \/ Tick

SpecStorage == InitStorage /\ [][NextStorage]_vars

\* The scenario as saveScenario writes it with the given readings of the
\* clock
Written(toSave, reads, isNew) ==
    JsonScenario(IF isNew THEN Appended(toSave, reads)
                 ELSE [toSave EXCEPT !.updatedAt = reads[1]])

\* The ids of a list, one for each entry
IdsOf(list) == { list[k].id : k \in 1..Len(list) }

\* C19: saveScenario is an upsert by id: a stored scenario with the same id
\* is replaced where it stands, otherwise the scenario is appended; the
\* stored scenarios with other ids are unchanged; and from an empty store no
\* two stored scenarios ever share an id.
C19_SaveIsUpsertById ==
    /\ \A j, k \in 1..Len(storage.items) :
           storage.items[j].id = storage.items[k].id => j = k
    /\ (lastCall.op = "saveScenario" /\ lastCall.ok) =>
          LET before == lastCall.before
              after  == storage.items
              arg    == lastCall.arg
          IN  IF arg.id \in IdsOf(before)
              THEN /\ Len(after) = Len(before)
                   /\ \A k \in 1..Len(before) :
                          after[k] = IF before[k].id = arg.id
                                     THEN Written(arg, lastCall.reads, FALSE)
                                     ELSE before[k]
              ELSE /\ Len(after) = Len(before) + 1
                   /\ after[Len(after)] = Written(arg, lastCall.reads, TRUE)
                   /\ \A k \in 1..Len(before) : after[k] = before[k]

C19_Witness ==
    /\ lastCall.op = "saveScenario" /\ lastCall.ok
    /\ Len(lastCall.before) = 2
    /\ lastCall.arg.id = lastCall.before[2].id
    /\ lastCall.arg.name # lastCall.before[2].name
    /\ storage.items[2].name = lastCall.arg.name

\* C20 (as claimed): loadScenarios returns the stored scenarios ordered by
\* updatedAt, newest first, and the scenario written by the most recent
\* successful saveScenario is the first element of the next loadScenarios
\* result (the clock of the model never runs backwards).
C20_LastSavedIsFirst ==
    IsDefined(loaded) =>
        LET list == Val(loaded)
        IN  /\ \A j, k \in 1..Len(list) : j < k => list[j].updatedAt >= list[k].updatedAt
            /\ IsDefined(lastSaved) => list[1].id = Val(lastSaved)

\* What loadScenarios must do with a value of the given kinds: return [],
\* not throw, and leave the key alone (untouched) or remove it (removed)
LoadHandles(untouched, removed) ==
    LoadScenarios =>
        /\ ~lastCall'.threw
        /\ storage.kind \in untouched => (loaded' = Some(<<>>) /\ storage' = storage)
        /\ storage.kind \in removed => (loaded' = Some(<<>>) /\ storage' = Missing)

\* The store after a saveScenario that follows such a loadScenarios holds
\* exactly the saved scenario
OnlySaved(s, reads) ==
    storage' = [kind |-> "array", items |-> <<Written(s, reads, TRUE)>>]

\* Every saveScenario that follows such a loadScenarios succeeds
SaveSucceedsAfterLoad ==
    \A s \in SavedScenarios, reads \in ClockReadings(2), setItemOk \in BOOLEAN :
        (SaveScenario(s, reads, setItemOk) /\ lastCall.op = "loadScenarios"
            /\ lastCall.found # "array")
            => (saveScenario(storage, s, reads, setItemOk).ok /\ OnlySaved(s, reads))

\* A saveScenario that follows such a loadScenarios succeeds when
\* localStorage.setItem returns; when setItem throws (lines 98-104) it
\* returns false and the store stays as the load left it
SaveAfterLoad ==
    \A s \in SavedScenarios, reads \in ClockReadings(2), setItemOk \in BOOLEAN :
        (SaveScenario(s, reads, setItemOk) /\ lastCall.op = "loadScenarios"
            /\ lastCall.found # "array")
            => IF setItemOk
               THEN saveScenario(storage, s, reads, setItemOk).ok /\ OnlySaved(s, reads)
               ELSE ~saveScenario(storage, s, reads, setItemOk).ok /\ storage' = storage

\* C29 (as claimed): loadScenarios never throws; a missing key gives [] and
\* leaves storage untouched; an unparseable value (the empty string is one)
\* or a value that is not an array gives [] and the key is removed; a
\* saveScenario that follows succeeds and leaves a store of exactly the
\* saved scenario.
C29_CorruptValueRemoved ==
    [][ LoadHandles({"missing"}, {"empty", "unparseable", "object"})
        /\ SaveSucceedsAfterLoad ]_vars

\* C29, the part on loadScenarios as claimed, the following saveScenario
\* with the outcome of a setItem that throws: fails on the empty string
\* alone.
C29_EmptyStringRemoved ==
    [][ LoadHandles({"missing"}, {"empty", "unparseable", "object"}) /\ SaveAfterLoad ]_vars

\* C29, the part on loadScenarios as the code has it, every following
\* saveScenario succeeding: fails on a setItem that throws alone.
C29_FollowingSaveSucceeds ==
    [][ LoadHandles({"missing", "empty"}, {"unparseable", "object"})
        /\ SaveSucceedsAfterLoad ]_vars

\* C29 (amended): the empty string is treated like a missing key,
\* loadScenarios returns [] and leaves it where it is; and the saveScenario
\* that follows succeeds unless setItem throws, when it returns false and
\* changes nothing.
C29_CorruptValueRemovedUnlessEmpty ==
    [][ LoadHandles({"missing", "empty"}, {"unparseable", "object"}) /\ SaveAfterLoad ]_vars

\* loadScenarios met a text that JSON.parse rejects: the key is gone and the
\* result is []
C29_Witness ==
    /\ lastCall.op = "loadScenarios"
    /\ lastCall.found = "unparseable"
    /\ ~lastCall.threw
    /\ loaded = Some(<<>>)
    /\ storage = Missing

----------------------------------------------------------------------------
(* importScenarioFromJSON (specification SpecImport).  A text is           *)
(* [kind, value]: kind "unparseable" for a text JSON.parse rejects, kind    *)
(* "json" with the parsed value otherwise.                                 *)

\* JSON.parse('null')
ParsedNull == [json |-> "null"]

\* The kind of a parsed value, read off the first character of
\* ToString(value): a string, a boolean, a record (an object, a number or
\* null), an array, or an integer
TypeOf(value) ==
    IF Head(ToString(value)) = "\"" THEN "string"
    ELSE IF Head(ToString(value)) \in {"T", "F"} THEN "boolean"
    ELSE IF Head(ToString(value)) = "[" THEN "record"
    ELSE IF Head(ToString(value)) \in {"<", "("} THEN "array"
    ELSE "integer"

\* !value: the empty string, false, 0, NaN, null and undefined are falsy,
\* every object and every array is truthy
IsFalsy(value) ==
    IF TypeOf(value) = "string" THEN value = ""
    ELSE IF TypeOf(value) = "boolean" THEN ~value
    ELSE IF TypeOf(value) = "integer" THEN value = 0
    ELSE IF TypeOf(value) = "record"
         THEN \/ value = ParsedNull
              \/ /\ DOMAIN value = DOMAIN Zero
                 /\ value.t # "Infinity" /\ value.hi = 0 /\ value.lo = 0
         ELSE FALSE

\* The value has the property: only an object has properties of its own
\* with the names of a scenario's fields
HasField(value, field) == TypeOf(value) = "record" /\ field \in DOMAIN value

\* !value[field], line 149 for the fields inputs and metrics: the property
\* is absent or holds a falsy value
Falsy(value, field) == ~HasField(value, field) \/ IsFalsy(value[field])

\* scenario.name || 'Importiertes Szenario', line 158
NameOr(value) ==
    IF Falsy(value, "name") THEN "Importiertes Szenario" ELSE value.name

\* Reading a property of null throws a TypeError
ReadThrows(value) == TypeOf(value) = "record" /\ value = ParsedNull

\* Lines 146-161, the try block: JSON.parse throws on an unparseable text,
\* reading a property of null throws, and line 150 throws when inputs or
\* metrics is falsy
TryImport(text, newId, time) ==
    IF text.kind = "unparseable" \/ ReadThrows(text.value)
          \/ Falsy(text.value, "inputs") \/ Falsy(text.value, "metrics")
    THEN [result |-> Undefined, threw |-> TRUE]
    ELSE [result |-> Some(Spread(text.value,
                                 [id |-> newId, name |-> NameOr(text.value),
                                  createdAt |-> time, updatedAt |-> time])),
          threw |-> FALSE]

\* importScenarioFromJSON without its catch block
importScenarioFromJSON_noCatch(text, newId, time) == TryImport(text, newId, time)

\* importScenarioFromJSON(json): lines 162-165 catch what the try block
\* throws and return null
importScenarioFromJSON(text, newId, time) ==
    IF TryImport(text, newId, time).threw
    THEN [result |-> Undefined, threw |-> FALSE]
    ELSE TryImport(text, newId, time)

\* exportScenarioAsJSON(scenario): the text JSON.stringify writes
exportScenarioAsJSON(s) == [kind |-> "json", value |-> JsonScenario(s)]

\* The record without one of its fields
Without(rec, field) == [f \in DOMAIN rec \ {field} |-> rec[f]]

\* The record with one field set or added
With(rec, field, value) ==
    [f \in DOMAIN rec \cup {field} |-> IF f = field THEN value ELSE rec[f]]

\* The exported scenario "A"
ExportedA == JsonScenario(createFinancialScenario("id1", "A", Undefined, 0))

\* Texts passed to the import whose values are records: no JSON; the texts
\* null and 5; exported scenarios (one of them with an empty name); and
\* the exported scenario "A" without its inputs, metrics, name or id, and
\* with null or 0 for its inputs or its metrics
ImportTexts ==
    { [kind |-> "unparseable"] }
    \cup { [kind |-> "json", value |-> v] : v \in {ParsedNull, Num(5)} }
    \cup { exportScenarioAsJSON(s) : s \in ScenarioChoices }
    \cup { [kind |-> "json", value |-> Without(ExportedA, f)] :
              f \in {"inputs", "metrics", "name", "id"} }
    \cup { [kind |-> "json", value |-> With(ExportedA, f, v)] :
              f \in {"inputs", "metrics"}, v \in {ParsedNull, Zero} }

\* Texts holding a value of another kind than a scenario has in its place:
\* the texts "A", true and [], and the exported scenario "A" with "" or
\* false for its inputs or its metrics and with null, 0, false or 5 for
\* its name
MistypedTexts ==
    << [kind |-> "json", value |-> "A"],
       [kind |-> "json", value |-> TRUE],
       [kind |-> "json", value |-> <<>>],
       [kind |-> "json", value |-> With(ExportedA, "inputs", "")],
       [kind |-> "json", value |-> With(ExportedA, "inputs", FALSE)],
       [kind |-> "json", value |-> With(ExportedA, "metrics", "")],
       [kind |-> "json", value |-> With(ExportedA, "metrics", FALSE)],
       [kind |-> "json", value |-> With(ExportedA, "name", ParsedNull)],
       [kind |-> "json", value |-> With(ExportedA, "name", Zero)],
       [kind |-> "json", value |-> With(ExportedA, "name", FALSE)],
       [kind |-> "json", value |-> With(ExportedA, "name", Num(5))] >>

\* The id of the text, "" when it has none
TextId(text) ==
    IF text.kind = "json" /\ HasField(text.value, "id") THEN text.value.id ELSE ""

InitImport ==
    /\ FnIdle
    /\ nowMs = 0
    /\ StoreIdle /\ MgrIdle
    /\ CalcIdle /\ HookIdle /\ ClockIdle /\ PageIdle

\* importScenarioFromJSON(text); crypto.randomUUID() gives an id that no
\* scenario has yet.  fnUpdates records the time of the call and whether an
\* exception left the function.
Import(text, newId) ==
    /\ FnCall
    /\ newId # TextId(text)
    /\ fnPrev' = Some(text)
    /\ fnScenario' = importScenarioFromJSON(text, newId, nowMs).result
    /\ fnUpdates' = Some([time |-> nowMs,
                          threw |-> importScenarioFromJSON(text, newId, nowMs).threw])
    /\ fnOp' = "importScenarioFromJSON"

\* The scenario imported last is exported and imported again
ImportExported(newId) ==
    /\ IsDefined(fnScenario)
    /\ Import(exportScenarioAsJSON(Val(fnScenario)), newId)

NextImport ==
    \/ \E t \in ImportTexts, i \in NewIds : Import(t, i)
    \/ \E k \in DOMAIN MistypedTexts, i \in NewIds : Import(MistypedTexts[k], i)
    \/ \E i \in NewIds : ImportExported(i)
    \/ Tick

SpecImport == InitImport /\ [][NextImport]_vars

\* Two parsed values are the same value of the same kind
SameValue(a, b) == TypeOf(a) = TypeOf(b) /\ a = b

\* The parsed value has no property of that name, or null for it
AbsentOrNull(value, field) ==
    ~HasField(value, field) \/ (TypeOf(value[field]) = "record" /\ value[field] = ParsedNull)

\* The value is the number 0, the empty string or false
IsZeroEmptyOrFalse(value) ==
    SameValue(value, Zero) \/ SameValue(value, "") \/ SameValue(value, FALSE)

\* The parsed value has the empty string for the property
IsEmptyString(value, field) ==
    HasField(value, field) /\ TypeOf(value[field]) = "string" /\ value[field] = ""

\* What the import keeps of the text besides the name: inputs and metrics
\* as they are, a fresh id, and both stamps from the time of the call
RenewedFrom(text, call) ==
    /\ IsDefined(fnScenario)
    /\ SameValue(Val(fnScenario).inputs, text.value.inputs)
    /\ SameValue(Val(fnScenario).metrics, text.value.metrics)
    /\ Val(fnScenario).id \in NewIds
    /\ Val(fnScenario).id # TextId(text)
    /\ Val(fnScenario).createdAt = call.time
    /\ Val(fnScenario).updatedAt = call.time

\* C30 (as claimed): importScenarioFromJSON returns null without throwing
\* when the text is not valid JSON or the parsed object lacks inputs or
\* lacks metrics (the property is absent or null); otherwise it returns the
\* parsed scenario with inputs and metrics unchanged, a fresh id different
\* from the id in the text, createdAt = updatedAt = now, and the name of the
\* text, or 'Importiertes Szenario' when that is empty or missing.
C30_AsClaimed ==
    fnOp = "importScenarioFromJSON" =>
        LET text == Val(fnPrev)
            call == Val(fnUpdates)
        IN  /\ ~call.threw
            /\ IF text.kind = "unparseable"
                  \/ AbsentOrNull(text.value, "inputs") \/ AbsentOrNull(text.value, "metrics")
               THEN fnScenario = Undefined
               ELSE /\ RenewedFrom(text, call)
                    /\ SameValue(Val(fnScenario).name,
                                 IF AbsentOrNull(text.value, "name")
                                       \/ IsEmptyString(text.value, "name")
                                 THEN "Importiertes Szenario" ELSE text.value.name)

\* C30 (amended): importScenarioFromJSON returns null without throwing when
\* the text is not valid JSON or the parsed value has no inputs or no
\* metrics or a falsy value for one of them (null, 0, "" or false);
\* otherwise it returns the parsed scenario with inputs and metrics
\* unchanged, a fresh id different from the id in the text, createdAt =
\* updatedAt = now, and the name of the text, or 'Importiertes Szenario'
\* when the name is missing or falsy ("", null, 0 or false).
C30_ImportValidatesAndRenews ==
    fnOp = "importScenarioFromJSON" =>
        LET text == Val(fnPrev)
            call == Val(fnUpdates)
        IN  /\ ~call.threw
            /\ IF text.kind = "unparseable"
                  \/ AbsentOrNull(text.value, "inputs") \/ AbsentOrNull(text.value, "metrics")
                  \/ IsZeroEmptyOrFalse(text.value.inputs)
                  \/ IsZeroEmptyOrFalse(text.value.metrics)
               THEN fnScenario = Undefined
               ELSE /\ RenewedFrom(text, call)
                    /\ SameValue(Val(fnScenario).name,
                                 IF AbsentOrNull(text.value, "name")
                                       \/ IsZeroEmptyOrFalse(text.value.name)
                                 THEN "Importiertes Szenario" ELSE text.value.name)

\* The exported scenario "A" with the name false was imported at a later
\* time: it got the default name, a fresh id and both stamps of that time
C30_Witness ==
    /\ fnOp = "importScenarioFromJSON"
    /\ IsDefined(fnScenario)
    /\ HasField(Val(fnPrev).value, "name")
    /\ SameValue(Val(fnPrev).value.name, FALSE)
    /\ TextId(Val(fnPrev)) = "id1"
    /\ SameValue(Val(fnScenario).name, "Importiertes Szenario")
    /\ Val(fnScenario).inputs = ExportedA.inputs
    /\ Val(fnScenario).id = "id8"
    /\ Val(fnScenario).createdAt = 2
    /\ Val(fnScenario).updatedAt = 2

----------------------------------------------------------------------------
(* useScenarioManager.ts (specification SpecManager): the page is loaded   *)
(* on a store left by earlier sessions, the mount effect runs, and the     *)
(* functions the hook returns are called.                                  *)

\* Stores found at page load: no entry, and two scenarios of which one was
\* stored before gastronomyProfitPerTicket and weeklyReserves existed
InitialStores ==
    LET stores(stored) ==
            { Missing,
              [kind |-> "array",
               items |-> << [ id |-> "id2", name |-> "Alt", createdAt |-> 0, updatedAt |-> 0,
                              inputs |-> [f \in InputFields \
                                            {"gastronomyProfitPerTicket", "weeklyReserves"}
                                          |-> One],
                              metrics |-> stored ],
                            [ id |-> "id1", name |-> "A", createdAt |-> 0, updatedAt |-> 0,
                              inputs |-> emptyInputs, metrics |-> stored ] >>] }
    IN  stores(zeroMetrics)

\* Scenarios passed to saveCurrentScenario: one without id and one with
PassedScenarios ==
    { [ id |-> i, name |-> "B", createdAt |-> 0, updatedAt |-> 0,
        inputs |-> emptyInputs, metrics |-> zeroMetrics ] : i \in {"", "id1"} }

\* What name || prompt(...) gives in saveCurrentScenario: nothing, a name,
\* a name within white space (a vertical tab, a no-break space and a space
\* before it, an ogham space mark, a byte order mark and a line feed after
\* it), white space only (a space, a vertical tab, a no-break space and an
\* ideographic space), and the empty answer.  A character beyond ASCII is
\* written \uXXXX (see Char).
EnteredNames ==
    {Undefined, Some("Neu"), Some("\\u00A0 Neu\\u1680\\uFEFF\n"),
     Some(" \\u00A0\\u3000"), Some("")}

\* Values passed to setCurrentScenario: null, a scenario that is not stored
\* and a scenario with the id of a stored one
SetScenarios ==
    { Undefined,
      Some([ id |-> "id7", name |-> "Z", createdAt |-> NoTime, updatedAt |-> 0,
             inputs |-> emptyInputs, metrics |-> zeroMetrics ]),
      Some([ id |-> "id1", name |-> "A", createdAt |-> 0, updatedAt |-> 0,
             inputs |-> emptyInputs, metrics |-> zeroMetrics ]) }

\* scenarios.map(migrateScenario)
MigrateAll(list) == [k \in 1..Len(list) |-> migrateScenario(list[k])]

InitManager ==
    /\ storage \in InitialStores
    /\ lastCall = [op |-> "none"]
    /\ lastSaved = Undefined
    /\ loaded = Undefined
    /\ storeOps = 0
    /\ MgrIdle
    /\ FnIdle
    /\ nowMs = 0
    /\ CalcIdle /\ HookIdle /\ ClockIdle /\ PageIdle

\* Lines 44-50: the effect that runs once after the first render
MountEffect ==
    /\ mgrLoading
    /\ mgrScenarios' = MigrateAll(loadScenarios(storage).result)
    /\ storage' = loadScenarios(storage).store
    /\ mgrLoading' = FALSE
    /\ UNCHANGED <<mgrCurrent, mgrReturned, lastCall, lastSaved, loaded, storeOps>>
    /\ UNCHANGED <<appVars, fnVars, nowMs>>

\* A function of the hook is called after the mount effect has run
MgrCall(op) ==
    /\ ~mgrLoading
    /\ storeOps < MaxStoreOps
    /\ storeOps' = storeOps + 1
    /\ lastCall' = [op |-> op]
    /\ UNCHANGED <<lastSaved, loaded, mgrLoading>>
    /\ UNCHANGED <<appVars, fnVars>>

\* The outcome of a save or delete taken over by the hook: on success the
\* list is read again with loadScenarios() and the current scenario is set
AfterWrite(res, current) ==
    LET refreshed(read) ==
            /\ storage' = read.store
            /\ mgrScenarios' = read.result
            /\ mgrCurrent' = current
    IN  IF res.ok
        THEN refreshed(loadScenarios(res.store))
        ELSE /\ storage' = res.store
             /\ UNCHANGED <<mgrScenarios, mgrCurrent>>

\* Strings.  A string of the program is held as a string of ASCII
\* characters: a character beyond ASCII is written as a JavaScript string
\* literal writes it, \uXXXX with the four hexadecimal digits (in capitals)
\* of its code unit, and a backslash is written twice.  The no-break space
\* is the six characters \u00A0 here and one character of the program.

\* The number of characters that write the character of s starting at i
CharLen(s, i) ==
    IF SubSeq(s, i, i) # "\\" THEN 1
    ELSE IF i < Len(s) /\ SubSeq(s, i + 1, i + 1) = "u" THEN Min(6, Len(s) - i + 1)
    ELSE Min(2, Len(s) - i + 1)

\* The character of s starting at i
Char(s, i) == SubSeq(s, i, i + CharLen(s, i) - 1)

RECURSIVE LastCharFrom(_, _)
\* Where the last character of s starts, for a character starting at i
LastCharFrom(s, i) ==
    IF i + CharLen(s, i) > Len(s) THEN i ELSE LastCharFrom(s, i + CharLen(s, i))

\* The white space and line terminators that String.prototype.trim removes:
\* tab, line feed, vertical tab (U+000B), form feed, carriage return, space,
\* no-break space, ogham space mark, the spaces U+2000 to U+200A, line and
\* paragraph separator, narrow no-break space, medium mathematical space,
\* ideographic space and byte order mark
WhiteSpace ==
    {"\t", "\n", "", "\f", "\r", " ",
     "\\u00A0", "\\u1680",
     "\\u2000", "\\u2001", "\\u2002", "\\u2003", "\\u2004", "\\u2005",
     "\\u2006", "\\u2007", "\\u2008", "\\u2009", "\\u200A",
     "\\u2028", "\\u2029", "\\u202F", "\\u205F", "\\u3000", "\\uFEFF"}

RECURSIVE TrimStart(_), TrimEnd(_)
\* The string without the white space at its start
TrimStart(s) ==
    IF Len(s) > 0 /\ Char(s, 1) \in WhiteSpace
    THEN TrimStart(SubSeq(s, CharLen(s, 1) + 1, Len(s))) ELSE s

\* The string without the white space at its end
TrimEnd(s) ==
    IF Len(s) > 0 /\ Char(s, LastCharFrom(s, 1)) \in WhiteSpace
    THEN TrimEnd(SubSeq(s, 1, LastCharFrom(s, 1) - 1)) ELSE s

\* scenarioName.trim()
Trim(s) == TrimEnd(TrimStart(s))

\* Line 64, !scenarioName || scenarioName.trim() === '': entered is what
\* name || prompt(...) gives, the name passed or typed, and is undefined
\* when no name was passed and the prompt was cancelled
NoName(entered) == ~IsDefined(entered) \/ Trim(Val(entered)) = ""

\* Lines 61-82: the scenario to save, with the trimmed name; reads are the
\* readings of the clock from the call on (line 73 and line 74 each take
\* one, line 80 takes one)
ScenarioToSave(toSave, entered, newId, reads) ==
    IF toSave.id = ""
    THEN [toSave EXCEPT !.id = newId, !.name = Trim(Val(entered)),
                        !.createdAt = reads[1], !.updatedAt = reads[2]]
    ELSE [toSave EXCEPT !.updatedAt = reads[1]]

\* saveCurrentScenario(scenario, name?); without an id and with no name or
\* a name of white space only, false is returned: nothing is saved and the
\* clock is not read
saveCurrentScenario(toSave, entered, newId, reads, setItemOk) ==
    /\ MgrCall("saveCurrentScenario")
    /\ UNCHANGED mgrReturned
    /\ IF toSave.id = "" /\ NoName(entered)
       THEN /\ NoTimePasses(reads)
            /\ UNCHANGED <<storage, mgrScenarios, mgrCurrent>>
       ELSE /\ Ticked(reads)
            /\ AfterWrite(saveScenario(storage,
                                       ScenarioToSave(toSave, entered, newId, reads),
                                       SubSeq(reads, IF toSave.id = "" THEN 3 ELSE 2, Len(reads)),
                                       setItemOk),
                          Some(ScenarioToSave(toSave, entered, newId, reads)))

\* setCurrentScenario(value), the state setter of line 40 that the hook
\* returns at line 170: value is a scenario or null
setCurrentScenario(value) ==
    /\ MgrCall("setCurrentScenario")
    /\ mgrCurrent' = value
    /\ UNCHANGED <<storage, mgrScenarios, mgrReturned, nowMs>>

\* scenarios.find((s) => s.id === id) on the list of the hook (optional)
FindById(list, id) ==
    IF FindIndex(list, id) > 0 THEN Some(list[FindIndex(list, id)]) ELSE Undefined

\* loadScenarioById(id)
loadScenarioById(id) ==
    /\ MgrCall("loadScenarioById")
    /\ UNCHANGED nowMs
    /\ LET found(migrated) ==
               /\ mgrReturned' = Some(migrated)
               /\ mgrCurrent' = Some(migrated)
       IN  IF IsDefined(FindById(mgrScenarios, id))
           THEN found(migrateScenario(Val(FindById(mgrScenarios, id))))
           ELSE /\ mgrReturned' = Undefined
                /\ UNCHANGED mgrCurrent
    /\ UNCHANGED <<storage, mgrScenarios>>

\* deleteScenarioById(id)
deleteScenarioById(id, setItemOk) ==
    /\ MgrCall("deleteScenarioById")
    /\ UNCHANGED <<mgrReturned, nowMs>>
    /\ AfterWrite(deleteScenario(storage, id, setItemOk),
                  IF IsDefined(mgrCurrent) /\ Val(mgrCurrent).id = id
                  THEN Undefined ELSE mgrCurrent)

\* createNewScenario(name)
createNewScenario(newId, name) ==
    /\ MgrCall("createNewScenario")
    /\ mgrCurrent' = Some(createFinancialScenario(newId, name, Undefined, nowMs))
    /\ UNCHANGED <<storage, mgrScenarios, mgrReturned, nowMs>>

\* Lines 146-163: what updateScenarioName does to the store and the state
\* of the hook
RenameStored(id, newName, reads, setItemOk) ==
    /\ UNCHANGED mgrReturned
    /\ IF IsDefined(FindById(mgrScenarios, id))
       THEN AfterWrite(saveScenario(storage,
                           [Val(FindById(mgrScenarios, id)) EXCEPT
                               !.name = newName, !.updatedAt = reads[1]],
                           Tail(reads), setItemOk),
                       IF IsDefined(mgrCurrent) /\ Val(mgrCurrent).id = id
                       THEN Some([Val(FindById(mgrScenarios, id)) EXCEPT
                                     !.name = newName, !.updatedAt = reads[1]])
                       ELSE mgrCurrent)
       ELSE UNCHANGED <<storage, mgrScenarios, mgrCurrent>>

\* updateScenarioName(id, newName); the clock is read only when the list has
\* the id
updateScenarioName(id, newName, reads, setItemOk) ==
    /\ MgrCall("updateScenarioName")
    /\ IF IsDefined(FindById(mgrScenarios, id)) THEN Ticked(reads) ELSE NoTimePasses(reads)
    /\ RenameStored(id, newName, reads, setItemOk)

\* refreshScenarios()
refreshScenarios ==
    /\ MgrCall("refreshScenarios")
    /\ UNCHANGED nowMs
    /\ storage' = loadScenarios(storage).store
    /\ mgrScenarios' = loadScenarios(storage).result
    /\ UNCHANGED <<mgrCurrent, mgrReturned>>

NextManager ==
    \/ MountEffect
    \/ \E p \in PassedScenarios, e \in EnteredNames, i \in NewIds,
          reads \in ClockReadings(3), ok \in BOOLEAN : saveCurrentScenario(p, e, i, reads, ok)
    \/ \E c \in SetScenarios : setCurrentScenario(c)
    \/ \E id \in DeletedIds : loadScenarioById(id)
    \/ \E id \in DeletedIds, ok \in BOOLEAN : deleteScenarioById(id, ok)
    \/ \E i \in NewIds : createNewScenario(i, "Neues Szenario")
    \/ \E id \in DeletedIds, reads \in ClockReadings(3), ok \in BOOLEAN :
          updateScenarioName(id, "Sommer", reads, ok)
    \/ refreshScenarios
    \/ Tick

SpecManager == InitManager /\ [][NextManager]_vars

\* C18 (as claimed): every scenario the hook obtained from storage has
\* passed through migrateScenario before it is exposed: once the initial
\* load has run, and after every saveCurrentScenario, deleteScenarioById,
\* updateScenarioName and refreshScenarios, each entry of the hook's scenarios
\* list has every field of DEFAULT_FINANCIAL_INPUTS in its inputs, and so has
\* the scenario returned by loadScenarioById.
C18_ListIsMigrated ==
    ~mgrLoading =>
        /\ \A k \in 1..Len(mgrScenarios) :
               DOMAIN DEFAULT_FINANCIAL_INPUTS \subseteq DOMAIN mgrScenarios[k].inputs
        /\ IsDefined(mgrReturned) =>
               DOMAIN DEFAULT_FINANCIAL_INPUTS \subseteq DOMAIN Val(mgrReturned).inputs

\* C25 (as claimed): updateScenarioName changes only the name and updatedAt
\* of the stored scenario: after any page load, saves, loads and deletes,
\* the stored scenarios have the same ids before and after the rename, the
\* renamed one has the inputs and metrics it had, and every other stored
\* scenario is as it was.
C25_RenameKeepsStoredData ==
    [][ \A id \in DeletedIds, reads \in ClockReadings(3), ok \in BOOLEAN :
          updateScenarioName(id, "Sommer", reads, ok) =>
              /\ IdsOf(storage'.items) = IdsOf(storage.items)
              /\ \A k \in 1..Len(storage'.items) :
                    LET after  == storage'.items[k]
                        before == Val(FindById(storage.items, after.id))
                    IN  /\ after.inputs = before.inputs
                        /\ after.metrics = before.metrics
                        /\ after.id # id => after = before ]_vars

\* What a successful deleteScenarioById(id) does to the store and to
\* currentScenario: no stored scenario has the id, every stored scenario with
\* another id is stored as it was, and currentScenario is null if it had
\* the id and unchanged otherwise
DeletedOnly(id) ==
    /\ IdsOf(storage'.items) = IdsOf(storage.items) \ {id}
    /\ Len(storage'.items) = Cardinality(IdsOf(storage'.items))
    /\ \A k \in 1..Len(storage'.items) :
          storage'.items[k] = Val(FindById(storage.items, storage'.items[k].id))
    /\ mgrCurrent' = IF IsDefined(mgrCurrent) /\ Val(mgrCurrent).id = id
                     THEN Undefined ELSE mgrCurrent

\* C28 (as claimed): after a successful deleteScenarioById(id) no stored
\* scenario has the id, every stored scenario with another id is stored as
\* it was, and currentScenario is null if it had the id and unchanged
\* otherwise; when no stored scenario has the id the call succeeds and
\* changes nothing: the stored scenarios and currentScenario are what they
\* were.
C28_AsClaimed ==
    [][ \A id \in DeletedIds :
          deleteScenarioById(id, TRUE) =>
              /\ DeletedOnly(id)
              /\ id \notin IdsOf(storage.items) =>
                    /\ IdsOf(storage'.items) = IdsOf(storage.items)
                    /\ mgrCurrent' = mgrCurrent ]_vars

\* C28 (amended): after a successful deleteScenarioById(id) no stored
\* scenario has the id, every stored scenario with another id is stored as
\* it was, and currentScenario is null if it had the id and unchanged
\* otherwise; when no stored scenario has the id the call succeeds and the
\* stored scenarios are what they were, while a currentScenario with that id
\* is still set to null.
C28_DeleteRemovesOnlyThatId ==
    [][ \A id \in DeletedIds :
          deleteScenarioById(id, TRUE) =>
              /\ DeletedOnly(id)
              /\ id \notin IdsOf(storage.items) =>
                    /\ IdsOf(storage'.items) = IdsOf(storage.items)
                    /\ IsDefined(mgrCurrent) /\ Val(mgrCurrent).id = id =>
                          mgrCurrent' = Undefined ]_vars

\* Scenario id2 was loaded, which made it the current scenario, and then
\* deleted: id1 alone is stored and there is no current scenario
C28_Witness ==
    /\ lastCall.op = "deleteScenarioById"
    /\ IsDefined(mgrReturned)
    /\ Val(mgrReturned).id = "id2"
    /\ mgrCurrent = Undefined
    /\ storage.kind = "array"
    /\ IdsOf(storage.items) = {"id1"}
    /\ IdsOf(mgrScenarios) = {"id1"}

----------------------------------------------------------------------------
(* The preview page (specification SpecPage): useScenarioManager and       *)
(* useFinancialScenario mounted together, the effect that synchronises     *)
(* them, and the handlers of the scenario buttons.                         *)

\* [savedCurrentScenario?.id, scenario.id]: the dependencies of the sync
\* effect that can change (loadScenario is a stable callback)
SyncDepsNow ==
    [ current |-> IF IsDefined(mgrCurrent) THEN Some(Val(mgrCurrent).id) ELSE Undefined,
      scenario |-> scenario.id ]

\* Every effect of the last render has run
PageStable ==
    /\ ~effectPending
    /\ ~mgrLoading
    /\ syncDeps = Some(SyncDepsNow)

\* crypto.randomUUID(): ids that no scenario of the page or of the store has
\* in the order in which the model hands them out
FreshIds ==
    SelectSeq(<<"id5", "id6", "id7", "id8", "id9">>,
              LAMBDA id : id \notin {scenario.id} \cup IdsOf(mgrScenarios)
                                  \cup IdsOf(storage.items)
                                  \cup { SyncDepsNow.current[k] :
                                            k \in 1..Len(SyncDepsNow.current) })

InitPage ==
    /\ now = [leapYear |-> FALSE, hour |-> 0]
    /\ nowMs = 0
    /\ scenario = createFinancialScenario("id0", "Standard Szenario", Undefined, nowMs)
    /\ weekMultipliers = Fill(52, One)
    /\ costMultipliers = Fill(52, One)
    /\ currentWeek = WeekOfYear(now.hour)
    /\ effectPending = TRUE
    /\ ops = 0
    /\ storage \in InitialStores
    /\ lastCall = [op |-> "none"]
    /\ lastSaved = Undefined
    /\ loaded = Undefined
    /\ storeOps = 0
    /\ MgrIdle
    /\ FnIdle
    /\ CalcIdle
    /\ PageIdle

\* A sync effect that never calls loadScenario
SyncEffect_neverLoads ==
    /\ syncDeps # Some(SyncDepsNow)
    /\ syncDeps' = Some(SyncDepsNow)
    /\ UNCHANGED <<scenario, effectPending>>
    /\ UNCHANGED <<weekMultipliers, costMultipliers, currentWeek, ops, calcVars, now>>
    /\ UNCHANGED <<fnVars, nowMs, storeVars, mgrVars, toggleRun>>

\* Lines 107-112: the effect runs after a render in which one of its
\* dependencies differs from the render of its last run, and loads the
\* manager's current scenario into useFinancialScenario when the ids differ
SyncEffect ==
    /\ syncDeps # Some(SyncDepsNow)
    /\ syncDeps' = Some(SyncDepsNow)
    /\ IF IsDefined(mgrCurrent) /\ Val(mgrCurrent).id # scenario.id
       THEN /\ scenario' = migrateScenario(Val(mgrCurrent))
            /\ effectPending' = TRUE
       ELSE UNCHANGED <<scenario, effectPending>>
    /\ UNCHANGED <<weekMultipliers, costMultipliers, currentWeek, ops, calcVars, now>>
    /\ UNCHANGED <<fnVars, nowMs, storeVars, mgrVars, toggleRun>>

\* Lines 327-334: saveCurrentScenario(scenario) with the scenario of
\* useFinancialScenario, which always has an id
handleSaveScenario(reads, setItemOk) ==
    /\ PageStable
    /\ saveCurrentScenario(scenario, Undefined, "", reads, setItemOk)

\* Lines 337-342
handleLoadScenario(id) == PageStable /\ loadScenarioById(id)

\* Lines 345-352, the user confirming
handleDeleteScenario(id, setItemOk) == PageStable /\ deleteScenarioById(id, setItemOk)

\* A handler of the page that changes both hooks is called
PageCall(op) ==
    /\ PageStable
    /\ storeOps < MaxStoreOps
    /\ storeOps' = storeOps + 1
    /\ lastCall' = [op |-> op]
    /\ UNCHANGED <<lastSaved, loaded, mgrLoading>>
    /\ UNCHANGED <<weekMultipliers, costMultipliers, currentWeek, ops, calcVars, now>>
    /\ UNCHANGED <<fnVars, pageVars>>

\* Lines 355-361, the user confirming: a new scenario is loaded into
\* useFinancialScenario and createNewScenario() makes another one, with an id
\* of its own, the manager's current scenario.  The name the page gives
\* depends on the locale.  Each createFinancialScenario reads the clock.
handleNewScenario(newId, managerId, pageName, reads) ==
    /\ PageCall("handleNewScenario")
    /\ newId # managerId
    /\ Ticked(reads)
    /\ \E newScenario \in {createFinancialScenario(newId, pageName, Undefined, reads[1])} :
           scenario' = migrateScenario(newScenario)
    /\ effectPending' = TRUE
    /\ mgrCurrent' = Some(createFinancialScenario(managerId, "Neues Szenario", Undefined,
                                                  reads[2]))
    /\ UNCHANGED <<storage, mgrScenarios, mgrReturned>>

\* Lines 424-431: updateScenarioName(id, newName) and, when it succeeded for
\* the current scenario, updateName(newName) of useFinancialScenario.  The
\* clock is read at line 151 of the manager, by saveScenario, and last by
\* updateScenarioMetadata when React applies the update of updateName.
onRenameScenario(id, newName, reads, setItemOk) ==
    /\ PageCall("onRenameScenario")
    /\ IF IsDefined(FindById(mgrScenarios, id)) THEN Ticked(reads) ELSE NoTimePasses(reads)
    /\ RenameStored(id, newName, SubSeq(reads, 1, 3), setItemOk)
    /\ IF /\ IsDefined(FindById(mgrScenarios, id)) /\ setItemOk
          /\ IsDefined(mgrCurrent) /\ Val(mgrCurrent).id = id
       THEN scenario' = updateScenarioMetadata(scenario, Some(newName), Undefined, reads[4])
       ELSE UNCHANGED scenario
    /\ UNCHANGED effectPending

NextPage ==
    \/ \E pageName \in {"Neues Szenario", "New Scenario"} :
           \E reads \in ClockReadings(2) :
               handleNewScenario(FreshIds[1], FreshIds[2], pageName, reads)
    \/ MountEffect
    \/ MetricsEffect(nowMs)
    \/ SyncEffect
    \/ \E reads \in ClockReadings(3), ok \in BOOLEAN : handleSaveScenario(reads, ok)
    \/ \E id \in DeletedIds : handleLoadScenario(id)
    \/ \E id \in DeletedIds \cup {"id0"}, ok \in BOOLEAN : handleDeleteScenario(id, ok)
    \/ \E id \in DeletedIds \cup {"id0"}, reads \in ClockReadings(4), ok \in BOOLEAN :
          onRenameScenario(id, "Sommer", reads, ok)
    \/ Tick

SpecPage == InitPage /\ [][NextPage]_vars

\* C26: on the preview page, after any new-scenario, save, load-by-id,
\* delete and rename actions and once all effects have run, the scenario of
\* useFinancialScenario has the id of the manager's currentScenario whenever
\* that is not null.
C26_PageScenarioIsCurrent ==
    (PageStable /\ IsDefined(mgrCurrent)) => scenario.id = Val(mgrCurrent).id

\* The stored scenario id2 was loaded by id and the sync effect has put it
\* into useFinancialScenario, which held id0 at mount
C26_Witness ==
    /\ PageStable
    /\ lastCall.op = "loadScenarioById"
    /\ IsDefined(mgrCurrent)
    /\ Val(mgrCurrent).id = "id2"
    /\ scenario.id = "id2"
    /\ scenario.name = "Alt"

====
